---- MODULE Spec2Model ----
(***************************************************************************)
(* A model of the gdx-ai.js steering engine (TypeScript port of gdx-ai).   *)
(*                                                                         *)
(* Numbers.  The engine computes with IEEE floats.  Here a number x is the *)
(* integer x * Unit (fixed point, resolution 1/Unit), products and         *)
(* quotients are rounded toward zero, and a squared length is kept in      *)
(* units of 1/Unit^2 so that no precision is lost before a comparison.     *)
(* Statements about magnitudes are therefore statements up to that         *)
(* resolution; each such statement names the slack it allows.              *)
(*                                                                         *)
(* Vectors are the two-component Vector2; the behaviours are generic over  *)
(* the Vector interface and use it only through the operations below.      *)
(***************************************************************************)
EXTENDS Integers, Sequences, FiniteSets, TLC

VARIABLES
  owner,                  \* the Steerable every behaviour steers
  target,                 \* the Location used as target by Arrive/ReachOrientation/Face
  enabled,                \* SteeringBehavior.enabled, per behaviour
  limiter,                \* SteeringBehavior.limiter, per behaviour (NullRef = null)
  behaviors,              \* PrioritySteering.behaviors
  epsilon,                \* PrioritySteering.epsilon
  selectedBehaviorIndex,  \* PrioritySteering.selectedBehaviorIndex
  list,                   \* BlendedSteering.list: <<[behavior, weight]>>
  steering,               \* BlendedSteering.steering, its private buffer
  params,                 \* arrivalTolerance, decelerationRadius, timeToTarget, alignTolerance
  out,                    \* the host's reusable output buffer
  returned,               \* index of the child whose acceleration PrioritySteering last returned, -1 if none
  call,                   \* record of the last calculateSteering call made by the host
  agents,                 \* the other Steerables of the world, by name
  proximity,              \* the RadiusProximity: radius, lastTime, agents (names in scan order)
  tickId,                 \* GdxAI.getTimepiece().getTickId()
  found,                  \* record of the last findNeighbors call on proximity
  jump,                   \* the Jump behaviour's fields
  callback,               \* the JumpCallback calls made for the current descriptor
  avoid,                  \* the CollisionAvoidance behaviour's fields
  path,                   \* the LinePath: isOpen, segments, pathLength
  follow,                 \* the FollowPath behaviour's fields and its LinePathParam
  follow2,                \* a second FollowPath on the same LinePath
  proximity2,             \* a second RadiusProximity, of another owner, over the same agents
  raycast,                \* the RaycastObstacleAvoidance with its ray configuration
  collisions,             \* what the RaycastCollisionDetector finds for each ray
  wander,                 \* the fields of the Wander
  deltaTime,              \* what the getDeltaTime handed to the Wander returns
  random                  \* what the next two calls of Math.random return

steerVars == <<owner, target, enabled, limiter, behaviors, epsilon,
               selectedBehaviorIndex, list, steering, params, out, returned, call>>

proximityVars == <<agents, proximity, tickId, found>>

jumpVars == <<jump, callback>>

pathVars == <<path, follow>>

restVars == <<follow2, proximity2, raycast, collisions, wander, deltaTime, random>>

worldVars == <<proximityVars, jumpVars, avoid, pathVars, restVars>>

vars == <<steerVars, worldVars>>

-----------------------------------------------------------------------------
(* Numbers *)

\* Fixed-point resolution: the integer Unit stands for the number 1.
Unit == 100

\* Number.POSITIVE_INFINITY, above every finite value of the model.
Infinity == 2000000000

Abs(a) == IF a < 0 THEN -a ELSE a

Min(a, b) == IF a <= b THEN a ELSE b

\* a / b rounded toward zero
QuoT(a, b) ==
  IF (a >= 0) = (b > 0) THEN Abs(a) \div Abs(b) ELSE -(Abs(a) \div Abs(b))

\* product and quotient of two fixed-point numbers
Mul(a, b) == IF a = Infinity \/ b = Infinity THEN Infinity ELSE QuoT(a * b, Unit)

Div(a, b) == QuoT(a * Unit, b)

\* limit * limit in units of 1/Unit^2
Sq(a) == IF a = Infinity THEN Infinity ELSE a * a

\* the value of an expression, computed once: the element of a singleton
The(S) == CHOOSE x \in S : TRUE

RECURSIVE SqrtSearch(_, _, _)
SqrtSearch(n, lo, hi) ==
  IF lo >= hi THEN lo
  ELSE The({IF mid * mid <= n THEN SqrtSearch(n, mid, hi) ELSE SqrtSearch(n, lo, mid - 1)
            : mid \in {(lo + hi + 1) \div 2}})

\* Math.sqrt of a number given in units of 1/Unit^2, result in units of 1/Unit
Sqrt(n) ==
  The({SqrtSearch(m, 0, IF m < 10000 THEN Min(m, 100)
                        ELSE IF m < 4000000 THEN 2000 ELSE 46340)
       : m \in {n}})

\* Math.sqrt rounded up
SqrtUp(n) == The({IF r * r = n THEN r ELSE r + 1 : r \in {Sqrt(n)}})

PI == (314159 * Unit) \div 100000

PI2 == 2 * PI

-----------------------------------------------------------------------------
(* Vector2 *)

Vec(x, y) == [x |-> x, y |-> y]

ZeroVec == Vec(0, 0)

sqrLen(v) == v.x * v.x + v.y * v.y

len(v) == Sqrt(sqrLen(v))

sub(a, b) == Vec(a.x - b.x, a.y - b.y)

add(a, b) == Vec(a.x + b.x, a.y + b.y)

scale(v, s) == Vec(Mul(v.x, s), Mul(v.y, s))

\* v.scale(num / den), the quotient taken at full precision
scaleRatio(v, num, den) == Vec(QuoT(v.x * num, den), QuoT(v.y * num, den))

scaleAndAdd(a, v, s) == Vec(a.x + Mul(v.x, s), a.y + Mul(v.y, s))

limit2NoSqrt(v, l2) ==
  LET len2 == sqrLen(v)
  IN IF len2 > l2 THEN scaleRatio(v, l2, len2) ELSE v

\* scale(Math.sqrt(limit2 / len2)): the square root of the quotient is the
\* quotient of the square roots
limit2(v, l2) ==
  LET len2 == sqrLen(v)
  IN IF len2 > l2 THEN scaleRatio(v, Sqrt(l2), SqrtUp(len2)) ELSE v

limit(v, l) == limit2(v, Sq(l))

-----------------------------------------------------------------------------
(* SteeringAcceleration *)

Accel(l, a) == [linear |-> l, angular |-> a]

ZeroAccel == Accel(ZeroVec, 0)

setZeroKeepsContent(s) == s

setZero(s) == ZeroAccel

mulAdd(acc, s, scalar) ==
  Accel(scaleAndAdd(acc.linear, s.linear, scalar), acc.angular + Mul(s.angular, scalar))

calculateSquareMagnitude(s) == sqrLen(s.linear) + s.angular * s.angular

-----------------------------------------------------------------------------
(* Limiters.  A getter yields [threw, value]: threw is the                 *)
(* Error('UnsupportedOperationException') of NullLimiter.                   *)

Ok(v) == [threw |-> FALSE, value |-> v]

Unsupported == [threw |-> TRUE, value |-> 0]

\* 0.001, compared by the code with squared lengths (units of 1/Unit^2)
ZeroLinearSpeedThreshold == (Unit * Unit) \div 1000

\* SteeringBehavior.limiter = null
NullRef == [kind |-> "null"]

NeutralLimiter == [kind |-> "NeutralLimiter"]

LinearLimiter(maxLinearAcceleration, maxLinearSpeed) ==
  [kind |-> "LinearLimiter", maxLinearAcceleration |-> maxLinearAcceleration,
   maxLinearSpeed |-> maxLinearSpeed]

LinearAccelerationLimiter(maxLinearAcceleration) ==
  [kind |-> "LinearAccelerationLimiter", maxLinearAcceleration |-> maxLinearAcceleration]

\* the owner itself, a Steerable and therefore a full Limiter
OwnerLimiter == [kind |-> "owner"]

NullLimiterGet(cap) ==
  IF cap = "zeroLinearSpeedThreshold" THEN Ok(ZeroLinearSpeedThreshold) ELSE Unsupported

NeutralLimiterGet(cap) ==
  IF cap \in {"maxLinearSpeed", "maxLinearAcceleration", "maxAngularSpeed",
              "maxAngularAcceleration"}
  THEN Ok(Infinity) ELSE NullLimiterGet(cap)

LinearLimiterGet(l, cap) ==
  CASE cap = "maxLinearSpeed" -> Ok(l.maxLinearSpeed)
    [] cap = "maxLinearAcceleration" -> Ok(l.maxLinearAcceleration)
    [] OTHER -> NullLimiterGet(cap)

LinearAccelerationLimiterGet(l, cap) ==
  IF cap = "maxLinearAcceleration" THEN Ok(l.maxLinearAcceleration) ELSE NullLimiterGet(cap)

OwnerGet(cap) ==
  CASE cap = "zeroLinearSpeedThreshold" -> Ok(ZeroLinearSpeedThreshold)
    [] cap = "maxLinearSpeed" -> Ok(owner.maxLinearSpeed)
    [] cap = "maxLinearAcceleration" -> Ok(owner.maxLinearAcceleration)
    [] cap = "maxAngularSpeed" -> Ok(owner.maxAngularSpeed)
    [] cap = "maxAngularAcceleration" -> Ok(owner.maxAngularAcceleration)

\* l.getXxx() for the accessor named cap
Get(l, cap) ==
  CASE l.kind = "owner" -> OwnerGet(cap)
    [] l.kind = "NeutralLimiter" -> NeutralLimiterGet(cap)
    [] l.kind = "LinearLimiter" -> LinearLimiterGet(l, cap)
    [] l.kind = "LinearAccelerationLimiter" -> LinearAccelerationLimiterGet(l, cap)
    [] l.kind = "NullLimiter" -> NullLimiterGet(cap)

getActualLimiter(b) == IF limiter[b] = NullRef THEN OwnerLimiter ELSE limiter[b]

-----------------------------------------------------------------------------
(* Angles *)

wrapAngleKeepsLongArc(a) == IF a >= 0 THEN a % PI2 ELSE -((-a) % PI2)

wrapAngleAroundZero(a) ==
  IF a >= 0
  THEN LET rotation == a % PI2
       IN IF rotation > PI THEN rotation - PI2 ELSE rotation
  ELSE LET rotation == (-a) % PI2
       IN -(IF rotation > PI THEN rotation - PI2 ELSE rotation)

\* Math.atan of a ratio t in [0, 1]: t*PI/4 + 0.273*t*(1 - t), exact at 0 and 1
\* and within 0.004 rad between
AtanUnit(t) == Mul(t, PI \div 4) + Mul(Mul((273 * Unit) \div 1000, t), Unit - t)

\* Math.atan2(y, x), in (-PI, PI]
Atan2(y, x) ==
  LET ax == Abs(x)
      ay == Abs(y)
      first == IF ax = 0 /\ ay = 0 THEN 0
               ELSE IF ay <= ax THEN AtanUnit(Div(ay, ax))
               ELSE PI \div 2 - AtanUnit(Div(ax, ay))
      upper == IF x >= 0 THEN first ELSE PI - first
  IN IF y >= 0 THEN upper ELSE -upper

\* the 2D Steerable's vectorToAngle
vectorToAngle(v) == Atan2(-v.x, v.y)

-----------------------------------------------------------------------------
(* Leaf behaviours.  Each yields [threw, acc]: acc is what the steering    *)
(* buffer holds when the call ends, threw whether it ended by an Error.     *)

\* reads is the set of limiter accessors the call invoked, each with the kind of
\* limiter it was invoked on.
Return(acc, reads) == [threw |-> FALSE, acc |-> acc, reads |-> reads]

Throw(acc, reads) == [threw |-> TRUE, acc |-> acc, reads |-> reads]

Read(l, caps) == {[kind |-> l.kind, cap |-> c] : c \in caps}

ArriveTargetSpeedNoSlowDown(b, distance, maxLinearSpeed) == maxLinearSpeed

\* Arrive: the speed wanted at the given distance from the target
ArriveTargetSpeed(b, distance, maxLinearSpeed) ==
  IF distance <= params[b].decelerationRadius
  THEN QuoT(maxLinearSpeed * distance, params[b].decelerationRadius)
  ELSE maxLinearSpeed

arrive(b, buf, targetPosition) ==
  LET toTarget == sub(targetPosition, owner.position)
      distance == len(toTarget)
      actualLimiter == getActualLimiter(b)
      maxLinearSpeed == Get(actualLimiter, "maxLinearSpeed")
      targetSpeed == ArriveTargetSpeed(b, distance, maxLinearSpeed.value)
      targetVelocity == scaleRatio(toTarget, targetSpeed, distance)
      wanted == scaleRatio(sub(targetVelocity, owner.linearVelocity),
                           Unit, params[b].timeToTarget)
      maxLinearAcceleration == Get(actualLimiter, "maxLinearAcceleration")
      both == Read(actualLimiter, {"maxLinearSpeed", "maxLinearAcceleration"})
  IN IF distance <= params[b].arrivalTolerance THEN Return(setZero(buf), {})
     ELSE IF maxLinearSpeed.threw
          THEN Throw(Accel(toTarget, buf.angular), Read(actualLimiter, {"maxLinearSpeed"}))
     ELSE IF maxLinearAcceleration.threw THEN Throw(Accel(wanted, buf.angular), both)
     ELSE Return(Accel(limit(wanted, maxLinearAcceleration.value), 0), both)

reachOrientation(b, buf, targetOrientation) ==
  LET rotation == wrapAngleAroundZero(targetOrientation - owner.orientation)
      rotationSize == IF rotation < 0 THEN -rotation ELSE rotation
      actualLimiter == getActualLimiter(b)
      maxAngularSpeed == Get(actualLimiter, "maxAngularSpeed")
      scaled == IF rotationSize <= params[b].decelerationRadius
                THEN Mul(maxAngularSpeed.value,
                         Div(rotationSize, params[b].decelerationRadius))
                ELSE maxAngularSpeed.value
      targetRotation == Mul(scaled, Div(rotation, rotationSize))
      angular == Div(targetRotation - owner.angularVelocity, params[b].timeToTarget)
      angularAcceleration == IF angular < 0 THEN -angular ELSE angular
      maxAngularAcceleration == Get(actualLimiter, "maxAngularAcceleration")
      cropped == IF angularAcceleration > maxAngularAcceleration.value
                 THEN Mul(angular, Div(maxAngularAcceleration.value, angularAcceleration))
                 ELSE angular
      both == Read(actualLimiter, {"maxAngularSpeed", "maxAngularAcceleration"})
  IN IF rotationSize <= params[b].alignTolerance THEN Return(setZero(buf), {})
     ELSE IF maxAngularSpeed.threw
          THEN Throw(buf, Read(actualLimiter, {"maxAngularSpeed"}))
     ELSE IF maxAngularAcceleration.threw THEN Throw(Accel(buf.linear, angular), both)
     ELSE Return(Accel(ZeroVec, cropped), both)

faceWithoutThreshold(b, buf, targetPosition) ==
  LET toTarget == sub(targetPosition, owner.position)
      read == Read(getActualLimiter(b), {"zeroLinearSpeedThreshold"})
      reach == reachOrientation(b, Accel(toTarget, buf.angular), vectorToAngle(toTarget))
  IN [reach EXCEPT !.reads = @ \cup read]

face(b, buf, targetPosition) ==
  LET toTarget == sub(targetPosition, owner.position)
      held == Accel(toTarget, buf.angular)
      threshold == Get(getActualLimiter(b), "zeroLinearSpeedThreshold")
      read == Read(getActualLimiter(b), {"zeroLinearSpeedThreshold"})
      reach == reachOrientation(b, held, vectorToAngle(toTarget))
  IN IF threshold.threw THEN Throw(held, read)
     ELSE IF sqrLen(toTarget) < threshold.value THEN Return(setZero(held), read)
     ELSE [reach EXCEPT !.reads = @ \cup read]

lookWhereYouAreGoing(b, buf) ==
  LET threshold == Get(getActualLimiter(b), "zeroLinearSpeedThreshold")
      read == Read(getActualLimiter(b), {"zeroLinearSpeedThreshold"})
      reach == reachOrientation(b, buf, vectorToAngle(owner.linearVelocity))
  IN IF threshold.threw THEN Throw(buf, read)
     ELSE IF sqrLen(owner.linearVelocity) < threshold.value THEN Return(setZero(buf), read)
     ELSE [reach EXCEPT !.reads = @ \cup read]


-----------------------------------------------------------------------------
(* The behaviours of the model *)

\* leaves whose calculateRealSteering is supplied by the host: each writes a
\* fixed acceleration (none, sub-threshold, linear magnitude 5, angular 3)
Custom == {"still", "nudge", "push", "spin"}

Leaves == Custom \cup {"arrive", "reach", "face", "look", "jump", "avoid", "follow",
                         "follow2", "raycast", "wander"}

Behaviors == Leaves \cup {"priority", "blended"}

Kind(b) ==
  CASE b = "priority" -> "PrioritySteering"
    [] b = "blended" -> "BlendedSteering"
    [] b = "arrive" -> "Arrive"
    [] b = "reach" -> "ReachOrientation"
    [] b = "face" -> "Face"
    [] b = "look" -> "LookWhereYouAreGoing"
    [] b = "jump" -> "Jump"
    [] b = "avoid" -> "CollisionAvoidance"
    [] b \in {"follow", "follow2"} -> "FollowPath"
    [] b = "raycast" -> "RaycastObstacleAvoidance"
    [] b = "wander" -> "Wander"
    [] OTHER -> "Custom"

CustomSteering(b) ==
  CASE b = "still" -> ZeroAccel
    [] b = "nudge" -> Accel(Vec(0, Unit \div 2), 0)
    [] b = "push" -> Accel(Vec(3 * Unit, 4 * Unit), 0)
    [] b = "spin" -> Accel(ZeroVec, 3 * Unit)

isEnabledAlways(b) == TRUE

isEnabled(b) == enabled[b]

\* SteeringBehavior's field before any assignment: PrioritySteering declares
\* selectedBehaviorIndex without an initializer.  A value no index takes.
Undefined == -2

-----------------------------------------------------------------------------
(* calculateSteering.  The state st threaded through one call holds the two *)
(* buffers (the host's out, BlendedSteering's steering), the selected       *)
(* index, whether an Error is propagating, and the trace: one entry per     *)
(* calculateSteering call, in the order the calls return.                    *)

Put(st, buf, acc) == [st EXCEPT ![buf] = acc]

LeafKeepsAngular(st, buf, result) ==
  The({[st EXCEPT ![buf] = Accel(r.acc.linear, st[buf].angular), !.threw = r.threw,
                  !.reads = @ \cup r.reads]
       : r \in {result}})

Leaf(st, buf, result) ==
  The({[st EXCEPT ![buf] = r.acc, !.threw = r.threw, !.reads = @ \cup r.reads]
       : r \in {result}})

-----------------------------------------------------------------------------
(* RadiusProximity.  The owner is the Steerable of the variable owner; the  *)
(* other Steerables are named.  findNeighbors works on the state st that is *)
(* threaded through one call: the Steerables, the proximity and the record  *)
(* found of what the call did.                                              *)

AgentNames == {"a1", "a2"}

dst2(a, b) == sqrLen(sub(a, b))

dot(a, b) == a.x * b.x + a.y * b.y

\* a Steerable as far as a proximity and a group behaviour look at it
Agent(p, v, r) ==
  [position |-> p, linearVelocity |-> v, boundingRadius |-> r, tagged |-> FALSE]

Steerable(st, name) == IF name = "owner" THEN st.owner ELSE st.agents[name]

setTaggedMovesAgent(agent, tagged) ==
  [agent EXCEPT !.tagged = tagged, !.position = Vec(@.x + Unit, @.y)]

setTagged(agent, tagged) == [agent EXCEPT !.tagged = tagged]

Tag(st, name, tagged) ==
  IF name = "owner" THEN [st EXCEPT !.owner = setTagged(@, tagged)]
  ELSE [st EXCEPT !.agents[name] = setTagged(@, tagged)]

\* a ProximityCallback of the host that accepts the agents of a fixed set
Probe(accept) == [kind |-> "probe", accept |-> accept]

NoFind == [kind |-> "none", callback |-> Probe({}), reported |-> <<>>,
           distances |-> {}, count |-> 0, scan |-> [count |-> -1, callback |-> Probe({})]]

\* the CollisionAvoidance as ProximityCallback, working on the buffer buf
Avoider(buf) == [kind |-> "CollisionAvoidance", buf |-> buf]

MoreImminentThanNone(timeToCollision, shortestTime) == timeToCollision > 0

\* the negation of "timeToCollision <= 0 || timeToCollision >= this.shortestTime"
MoreImminent(timeToCollision, shortestTime) ==
  ~(timeToCollision <= 0 \/ timeToCollision >= shortestTime)

\* CollisionAvoidance.reportNeighbor; relativePosition is the linear part of
\* the buffer handed to calculateRealSteering
CollisionAvoidance_reportNeighbor(cb, name, st) ==
  The({
    IF sqrLen(relativeVelocity) = 0 THEN [accepted |-> FALSE, st |-> s]
    ELSE The({
      IF ~MoreImminent(timeToCollision, s.avoid.shortestTime)
      THEN [accepted |-> FALSE, st |-> s]
      ELSE The({
        IF minSeparation > s.owner.boundingRadius + Steerable(s, name).boundingRadius
        THEN [accepted |-> FALSE, st |-> s]
        ELSE [accepted |-> TRUE,
              st |-> [s EXCEPT !.avoid.shortestTime = timeToCollision,
                               !.avoid.firstNeighbor = name,
                               !.avoid.firstMinSeparation = minSeparation,
                               !.avoid.firstDistance = len(relativePosition),
                               !.avoid.firstRelativePosition = relativePosition,
                               !.avoid.firstRelativeVelocity = relativeVelocity]]
        : minSeparation \in {len(relativePosition)
                               - Mul(Sqrt(sqrLen(relativeVelocity)), timeToCollision)}})
      : timeToCollision \in {QuoT(-dot(relativePosition, relativeVelocity) * Unit,
                                  sqrLen(relativeVelocity))}})
    : relativePosition \in {sub(Steerable(st, name).position, st.owner.position)},
      relativeVelocity \in {sub(Steerable(st, name).linearVelocity, st.owner.linearVelocity)},
      s \in {[st EXCEPT ![cb.buf].linear =
                          sub(Steerable(st, name).position, st.owner.position),
                        !.avoid.relativeVelocity =
                          sub(Steerable(st, name).linearVelocity, st.owner.linearVelocity)]}})

\* callback.reportNeighbor(neighbor): the answer and the state it leaves
reportNeighbor(cb, name, st) ==
  IF cb.kind = "probe"
  THEN The({[accepted |-> name \in cb.accept,
             st |-> [s EXCEPT !.found.reported = Append(@, name)]] : s \in {st}})
  ELSE CollisionAvoidance_reportNeighbor(cb, name,
                                         [st EXCEPT !.found.reported = Append(@, name)])

WithinRangeOrOnIt(st, name) ==
  dst2(Steerable(st, st.proximity.owner).position, Steerable(st, name).position)
    <= Sq(st.proximity.radius + Steerable(st, name).boundingRadius)

\* "squareDistance < range * range"
WithinRange(st, name) ==
  dst2(Steerable(st, st.proximity.owner).position, Steerable(st, name).position)
    < Sq(st.proximity.radius + Steerable(st, name).boundingRadius)

RECURSIVE ScanLoop(_, _, _)
\* findNeighbors, new frame: "Scan the agents searching for neighbors"
ScanLoop(i, cb, st) ==
  IF i > Len(st.proximity.agents) THEN st
  ELSE The({
    IF name # st.proximity.owner
    THEN The({
      IF WithinRange(measured, name)
      THEN The({IF r.accepted
                THEN ScanLoop(i + 1, cb, [Tag(r.st, name, TRUE) EXCEPT !.found.count = @ + 1])
                ELSE ScanLoop(i + 1, cb, Tag(r.st, name, FALSE))
                : r \in {reportNeighbor(cb, name, measured)}})
      ELSE ScanLoop(i + 1, cb, Tag(measured, name, FALSE))
      : measured \in {[st EXCEPT !.found.distances = @ \cup {name}]}})
    ELSE ScanLoop(i + 1, cb, Tag(st, name, FALSE))
    : name \in {st.proximity.agents[i]}})

RECURSIVE ReplayLoop(_, _, _)
ReplayLoopReportsAll(i, cb, st) ==
  IF i > Len(st.proximity.agents) THEN st
  ELSE The({
    IF name # st.proximity.owner
    THEN The({IF r.accepted
              THEN ReplayLoop(i + 1, cb, [r.st EXCEPT !.found.count = @ + 1])
              ELSE ReplayLoop(i + 1, cb, r.st)
              : r \in {reportNeighbor(cb, name, st)}})
    ELSE ReplayLoop(i + 1, cb, st)
    : name \in {st.proximity.agents[i]}})

\* findNeighbors, same frame: "Scan the agents searching for tagged neighbors"
ReplayLoop(i, cb, st) ==
  IF i > Len(st.proximity.agents) THEN st
  ELSE The({
    IF name # st.proximity.owner /\ Steerable(st, name).tagged
    THEN The({IF r.accepted
              THEN ReplayLoop(i + 1, cb, [r.st EXCEPT !.found.count = @ + 1])
              ELSE ReplayLoop(i + 1, cb, r.st)
              : r \in {reportNeighbor(cb, name, st)}})
    ELSE ReplayLoop(i + 1, cb, st)
    : name \in {st.proximity.agents[i]}})

\* RadiusProximity.findNeighbors(callback); the count returned is found.count
findNeighbors(cb, st) ==
  IF st.proximity.lastTime # tickId
  THEN The({[r EXCEPT !.found.scan = [count |-> r.found.count, callback |-> cb]]
            : r \in {ScanLoop(1, cb,
                       [st EXCEPT !.proximity.lastTime = tickId,
                                  !.found = [NoFind EXCEPT !.kind = "scan", !.callback = cb,
                                                           !.scan = st.found.scan]])}})
  ELSE ReplayLoop(1, cb, [st EXCEPT !.found = [NoFind EXCEPT !.kind = "replay",
                                                             !.callback = cb,
                                                             !.scan = st.found.scan]])

\* findNeighbors(callback) on the proximity held in the field which
findNeighborsOf(which, cb, st) ==
  IF which = "proximity" THEN findNeighbors(cb, st)
  ELSE The({[r EXCEPT ![which] = r.proximity, !.proximity = st.proximity, !.found = st.found]
            : r \in {findNeighbors(cb, [st EXCEPT !.proximity = st[which]])}})

\* CollisionAvoidance.calculateRealSteering
collisionAvoidance(b, buf, st) ==
  The({
    IF s.found.count = 0 \/ s.avoid.firstNeighbor = "null"
    THEN Put(s, buf, setZero(s[buf]))
    ELSE The({
      IF maxLinearAcceleration.threw
      THEN [s EXCEPT ![buf].linear = scaleRatio(relativePosition, Unit, len(relativePosition)),
                     !.threw = TRUE,
                     !.reads = @ \cup Read(getActualLimiter(b), {"maxLinearAcceleration"})]
      ELSE [s EXCEPT ![buf] = Accel(IF len(relativePosition) = 0 THEN ZeroVec
                                    ELSE scaleRatio(relativePosition,
                                                    -maxLinearAcceleration.value,
                                                    len(relativePosition)), 0),
                     !.reads = @ \cup Read(getActualLimiter(b), {"maxLinearAcceleration"})]
      : relativePosition \in
          {IF s.avoid.firstMinSeparation <= 0
                \/ s.avoid.firstDistance
                     < s.owner.boundingRadius
                       + Steerable(s, s.avoid.firstNeighbor).boundingRadius
           THEN sub(Steerable(s, s.avoid.firstNeighbor).position, s.owner.position)
           ELSE scaleAndAdd(s.avoid.firstRelativePosition, s.avoid.firstRelativeVelocity,
                            s.avoid.shortestTime)},
        maxLinearAcceleration \in {Get(getActualLimiter(b), "maxLinearAcceleration")}})
    : s \in {findNeighbors(Avoider(buf),
                           [st EXCEPT !.avoid.shortestTime = Infinity,
                                      !.avoid.firstNeighbor = "null",
                                      !.avoid.firstMinSeparation = 0,
                                      !.avoid.firstDistance = 0])}})

-----------------------------------------------------------------------------
(* RaycastObstacleAvoidance.  The rays of the configuration are named by    *)
(* number; collisions[ray] is what the detector finds for the ray, NullRef  *)
(* when the ray hits nothing.  raycast.cast records the rays handed to the  *)
(* detector by the last evaluation.                                         *)

RayIds == 1..3

Collision(point, normal) == [point |-> point, normal |-> normal]

\* RaycastCollisionDetector.findCollision(outputCollision, inputRay)
findCollision(outputCollision, inputRay) ==
  IF collisions[inputRay] = NullRef
  THEN [collided |-> FALSE, outputCollision |-> outputCollision]
  ELSE [collided |-> TRUE, outputCollision |-> collisions[inputRay]]

CloserOrAsClose(distanceSquare, minDistanceSquare) == distanceSquare <= minDistanceSquare

\* "distanceSquare < minDistanceSquare"
Closer(distanceSquare, minDistanceSquare) == distanceSquare < minDistanceSquare

RECURSIVE ProcessRays(_, _, _)
\* "Process rays": yields the state and minDistanceSquare after the loop
ProcessRays(i, minDistanceSquare, st) ==
  IF i > Len(st.raycast.rays) THEN [st |-> st, minDistanceSquare |-> minDistanceSquare]
  ELSE The({
    IF r.collided /\ Closer(dst2(st.owner.position, r.outputCollision.point),
                            minDistanceSquare)
    THEN ProcessRays(i + 1, dst2(st.owner.position, r.outputCollision.point),
                     [st EXCEPT !.raycast.cast = Append(@, st.raycast.rays[i]),
                                !.raycast.outputCollision = st.raycast.minOutputCollision,
                                !.raycast.minOutputCollision = r.outputCollision])
    ELSE ProcessRays(i + 1, minDistanceSquare,
                     [st EXCEPT !.raycast.cast = Append(@, st.raycast.rays[i]),
                                !.raycast.outputCollision = r.outputCollision])
    : r \in {findCollision(st.raycast.outputCollision, st.raycast.rays[i])}})

\* RaycastObstacleAvoidance.calculateRealSteering
raycastObstacleAvoidance(b, buf, st) ==
  The({
    IF r.minDistanceSquare = Infinity THEN Put(r.st, buf, setZero(r.st[buf]))
    ELSE The({
      IF maxLinearAcceleration.threw
      THEN [r.st EXCEPT ![buf].linear = IF len(toTarget) = 0 THEN toTarget
                                        ELSE scaleRatio(toTarget, Unit, len(toTarget)),
                        !.threw = TRUE,
                        !.reads = @ \cup Read(getActualLimiter(b), {"maxLinearAcceleration"})]
      ELSE [r.st EXCEPT ![buf] = Accel(IF len(toTarget) = 0 THEN toTarget
                                       ELSE scaleRatio(toTarget, maxLinearAcceleration.value,
                                                       len(toTarget)), 0),
                        !.reads = @ \cup Read(getActualLimiter(b), {"maxLinearAcceleration"})]
      : toTarget \in
          {sub(scaleAndAdd(r.st.raycast.minOutputCollision.point,
                           r.st.raycast.minOutputCollision.normal,
                           r.st.owner.boundingRadius + r.st.raycast.distanceFromBoundary),
               r.st.owner.position)},
        maxLinearAcceleration \in {Get(getActualLimiter(b), "maxLinearAcceleration")}})
    : r \in {ProcessRays(1, Infinity, [st EXCEPT !.raycast.cast = <<>>])}})

-----------------------------------------------------------------------------
(* Jump.  The vertical axis is y: GravityComponentHandler.getComponent is   *)
(* the y component.  The fields live in st.jump; st.callback records the    *)
(* JumpCallback calls made since the descriptor was assigned.               *)

\* the result of Math.sqrt of a negative number and of arithmetic on undefined
NaN == -2000000001

getComponent(v) == v.y

setComponent(v, value) == [v EXCEPT !.y = value]

\* "Math.abs(a - b) > epsilon", false when epsilon is undefined
Exceeds(a, b, eps) == eps # Undefined /\ Abs(a - b) > eps

\* Vector2.epsilonEquals
epsilonEquals(a, b, eps) == ~Exceeds(a.x, b.x, eps) /\ ~Exceeds(a.y, b.y, eps)

JumpDescriptor(takeoffPosition, landingPosition) ==
  [takeoffPosition |-> takeoffPosition, landingPosition |-> landingPosition,
   delta |-> sub(landingPosition, takeoffPosition)]

\* Jump.checkAirborneTimeAndCalculateVelocity: 1 / 0 is Infinity and the
\* comparison is false, as it is for NaN
checkAirborneTimeAndCalculateVelocity(outVelocity, time, delta, maxLinearSpeed) ==
  IF time = NaN \/ time = 0 THEN [ok |-> FALSE, outVelocity |-> outVelocity]
  ELSE The({IF sqrLen(planarVelocity) < Sq(maxLinearSpeed)
            THEN [ok |-> TRUE,
                  outVelocity |-> setComponent(planarVelocity, getComponent(outVelocity))]
            ELSE [ok |-> FALSE, outVelocity |-> outVelocity]
            : planarVelocity \in {setComponent(scaleRatio(delta, Unit, time), 0)}})

\* (-maxVerticalVelocity + sign * sqrtTerm) / g
JumpTime(g, maxVerticalVelocity, delta, sign) ==
  IF maxVerticalVelocity = Undefined
       \/ 2 * g * getComponent(delta) + maxVerticalVelocity * maxVerticalVelocity < 0
  THEN NaN
  ELSE QuoT((-maxVerticalVelocity
             + sign * Sqrt(2 * g * getComponent(delta)
                           + maxVerticalVelocity * maxVerticalVelocity)) * Unit, g)

\* Jump.calculateAirborneTimeAndVelocity of the Jump with fields j: the time
\* returned and the value of outVelocity afterwards
calculateAirborneTimeAndVelocity(j, outVelocity, delta, maxLinearSpeed) ==
  The({IF first.check.ok
       THEN [time |-> first.time, outVelocity |-> first.check.outVelocity]
       ELSE The({IF second.check.ok
                 THEN [time |-> second.time, outVelocity |-> second.check.outVelocity]
                 ELSE [time |-> -Unit, outVelocity |-> outVelocity]
                 : second \in {The({[time |-> t,
                                     check |-> checkAirborneTimeAndCalculateVelocity(
                                                 outVelocity, t, delta, maxLinearSpeed)]
                                    : t \in {JumpTime(getComponent(j.gravity),
                                                      j.maxVerticalVelocity, delta, -1)}})}})
       : first \in {The({[time |-> t,
                          check |-> checkAirborneTimeAndCalculateVelocity(
                                      outVelocity, t, delta, maxLinearSpeed)]
                         : t \in {JumpTime(getComponent(j.gravity),
                                           j.maxVerticalVelocity, delta, 1)}})}})

AchievableAlways(time) == TRUE

\* "this.airborneTime >= 0"
Achievable(time) == time >= 0

\* a JumpCallback call, with whether a run-up acceleration was produced before
Called(st, name, arg) ==
  [st EXCEPT !.callback.calls =
     Append(@, [name |-> name, arg |-> arg, ranUp |-> st.callback.ranUp])]

\* Jump.calculateTarget followed by callback.reportAchievability
calculateTarget(b, st) ==
  The({IF maxLinearSpeed.threw
       THEN [placed EXCEPT !.threw = TRUE,
                           !.reads = @ \cup Read(getActualLimiter(b), {"maxLinearSpeed"})]
       ELSE The({Called([placed EXCEPT !.jump.airborneTime = r.time,
                                       !.jump.jumpTarget.linearVelocity = r.outVelocity,
                                       !.jump.isJumpAchievable = Achievable(r.time),
                                       !.jump.target = "jumpTarget",
                                       !.reads = @ \cup Read(getActualLimiter(b),
                                                             {"maxLinearSpeed"})],
                        "reportAchievability", Achievable(r.time))
                 : r \in {calculateAirborneTimeAndVelocity(
                            placed.jump, placed.jump.jumpTarget.linearVelocity,
                            placed.jump.jumpDescriptor.delta, maxLinearSpeed.value)}})
       : placed \in {[st EXCEPT !.jump.jumpTarget.position =
                                    st.jump.jumpDescriptor.takeoffPosition]},
         maxLinearSpeed \in {Get(getActualLimiter(b), "maxLinearSpeed")}})

\* MatchVelocity.calculateRealSteering toward the velocity of the target
matchVelocity(b, buf, targetVelocity, ownerVelocity, timeToTarget) ==
  LET wanted == scaleRatio(sub(targetVelocity, ownerVelocity), Unit, timeToTarget)
      actualLimiter == getActualLimiter(b)
      maxLinearAcceleration == Get(actualLimiter, "maxLinearAcceleration")
      read == Read(actualLimiter, {"maxLinearAcceleration"})
  IN IF maxLinearAcceleration.threw THEN Throw(Accel(wanted, buf.angular), read)
     ELSE Return(Accel(limit(wanted, maxLinearAcceleration.value), 0), read)

TakeoffWithoutVelocityCheck(st) ==
  epsilonEquals(st.owner.position, st.jump.jumpTarget.position,
                st.jump.takeoffPositionTolerance)

\* "the owner has reached target position and velocity with acceptable tolerance"
Takeoff(st) ==
  /\ epsilonEquals(st.owner.position, st.jump.jumpTarget.position,
                   st.jump.takeoffPositionTolerance)
  /\ epsilonEquals(st.owner.linearVelocity, st.jump.jumpTarget.linearVelocity,
                   st.jump.takeoffVelocityTolerance)

HasTrajectoryNever(st) == FALSE

\* "Check if we have a trajectory"
HasTrajectory(st) == st.jump.target # "null"

\* Jump.calculateRealSteering
jumpSteering(b, buf, st) ==
  The({IF s.threw THEN s
       ELSE IF ~s.jump.isJumpAchievable THEN Put(s, buf, setZero(s[buf]))
       ELSE IF Takeoff(s)
       THEN Put(Called([s EXCEPT !.jump.isJumpAchievable = FALSE], "takeoff",
                       <<s.jump.maxVerticalVelocity, s.jump.airborneTime>>),
                buf, setZero(s[buf]))
       ELSE Leaf([s EXCEPT !.callback.ranUp = TRUE], buf,
                 matchVelocity(b, s[buf], s.jump.jumpTarget.linearVelocity,
                               s.owner.linearVelocity, s.jump.timeToTarget))
       : s \in {IF HasTrajectory(st) THEN st ELSE calculateTarget(b, st)}})

-----------------------------------------------------------------------------
(* LinePath.  A path is its isOpen flag, its segments and its length; the   *)
(* scratch vectors of the class are local to the operators below.           *)

NaNVec == Vec(NaN, NaN)

dst(a, b) == Sqrt(dst2(a, b))

clamp(value, min, max) == IF value < min THEN min ELSE IF value > max THEN max ELSE value

\* the JavaScript a % b: the sign of the dividend
Rem(a, b) == a - b * QuoT(a, b)

\* new Segment(begin, end): cumulativeLength is assigned by createPath
Segment(begin, end) ==
  [begin |-> begin, end |-> end, length |-> dst(begin, end), cumulativeLength |-> Undefined]

\* the argument of the constructor and of createPath: an array or null
Waypoints(array) == [isNull |-> FALSE, array |-> array]

NullWaypoints == [isNull |-> TRUE, array |-> <<>>]

WaypointsAcceptedFromOne(waypoints) == ~waypoints.isNull /\ Len(waypoints.array) >= 1

\* the negation of "waypoints == null || waypoints.length < 2"
WaypointsAccepted(waypoints) == ~waypoints.isNull /\ Len(waypoints.array) >= 2

RECURSIVE BuildSegments(_, _, _, _, _)
\* LinePath.createPath: the loop from index i (0-based) on
BuildSegments(waypoints, isOpen, i, segments, pathLength) ==
  IF i > Len(waypoints) \/ (i = Len(waypoints) /\ isOpen)
  THEN [segments |-> segments, pathLength |-> pathLength]
  ELSE The({BuildSegments(waypoints, isOpen, i + 1,
                          Append(segments, [segment EXCEPT !.cumulativeLength =
                                                             pathLength + segment.length]),
                          pathLength + segment.length)
            : segment \in {Segment(waypoints[i],
                                   IF i < Len(waypoints) THEN waypoints[i + 1]
                                   ELSE waypoints[1])}})

\* LinePath.createPath: whether it threw, and the segments and the length it built
createPath(waypoints, isOpen) ==
  IF ~WaypointsAccepted(waypoints)
  THEN [threw |-> TRUE, segments |-> <<>>, pathLength |-> 0]
  ELSE The({[threw |-> FALSE, segments |-> built.segments, pathLength |-> built.pathLength]
            : built \in {BuildSegments(waypoints.array, isOpen, 1, <<>>, 0)}})

\* LinePath.calculatePointSegmentSquareDistance: the nearest point and the
\* squared distance returned
calculatePointSegmentSquareDistance(a, b, c) ==
  The({[out |-> point, distance2 |-> dst2(point, c)]
       : point \in {IF sqrLen(sub(b, a)) # 0
                  THEN scaleAndAdd(a, sub(b, a),
                                   clamp(QuoT(dot(sub(c, a), sub(b, a)) * Unit,
                                              sqrLen(sub(b, a))), 0, Unit))
                  ELSE a}})

NearerOrEqual(distance2, smallestDistance2) == distance2 <= smallestDistance2

\* "distance2 < smallestDistance2"
Nearer(distance2, smallestDistance2) == distance2 < smallestDistance2

RECURSIVE NearestSegment(_, _, _, _)
\* LinePath.calculateDistance: "Find the nearest segment", from index i
\* (1-based) with the best found so far
NearestSegment(segments, agentCurrPos, i, best) ==
  IF i > Len(segments) THEN best
  ELSE The({IF Nearer(r.distance2, best.smallestDistance2)
            THEN NearestSegment(segments, agentCurrPos, i + 1,
                                [smallestDistance2 |-> r.distance2,
                                 nearestPointOnPath |-> r.out, segmentIndex |-> i - 1])
            ELSE NearestSegment(segments, agentCurrPos, i + 1, best)
            : r \in {calculatePointSegmentSquareDistance(segments[i].begin, segments[i].end,
                                                         agentCurrPos)}})

\* LinePath.calculateDistance: the parameter it leaves, from the parameter it
\* was given; its distance is the value returned
calculateDistance(pth, agentCurrPos, parameter) ==
  The({[segmentIndex |-> nearest.segmentIndex,
        distance |-> pth.segments[nearest.segmentIndex + 1].cumulativeLength
                       - dst(nearest.nearestPointOnPath,
                             pth.segments[nearest.segmentIndex + 1].end)]
       : nearest \in {NearestSegment(pth.segments, agentCurrPos, 1,
                                     [smallestDistance2 |-> Infinity,
                                      nearestPointOnPath |-> ZeroVec,
                                      segmentIndex |-> parameter.segmentIndex])}})

\* LinePath.calculateTargetPosition: targetDistance clamped or wrapped
WithinPath(pth, targetDistance) ==
  IF pth.isOpen
  THEN clamp(targetDistance, 0, pth.pathLength)
  ELSE IF targetDistance < 0
       THEN IF pth.pathLength = 0 THEN NaN
            ELSE pth.pathLength + Rem(targetDistance, pth.pathLength)
       ELSE IF targetDistance > pth.pathLength THEN Rem(targetDistance, pth.pathLength)
       ELSE targetDistance

\* "begin-------targetPos-------end": 0 / 0 is NaN
Interpolate(segment, distance) ==
  IF segment.length = 0 THEN NaNVec
  ELSE add(scaleRatio(sub(segment.begin, segment.end), distance, segment.length),
           segment.end)

\* LinePath.calculateTargetPosition: whether it threw (no segment reaches the
\* distance) and the value of out afterwards
calculateTargetPosition(pth, outVector, targetDistance) ==
  The({IF d = NaN \/ \A i \in 1..Len(pth.segments) : pth.segments[i].cumulativeLength < d
       THEN [threw |-> TRUE, out |-> outVector]
       ELSE The({[threw |-> FALSE,
                  out |-> Interpolate(pth.segments[i], pth.segments[i].cumulativeLength - d)]
                 : i \in {CHOOSE i \in 1..Len(pth.segments) :
                            /\ pth.segments[i].cumulativeLength >= d
                            /\ \A j \in 1..(i - 1) : pth.segments[j].cumulativeLength < d}})
       : d \in {WithinPath(pth, targetDistance)}})

\* no call of the host on the path yet
NoProbe ==
  [position |-> NullRef, param |-> [segmentIndex |-> Undefined, distance |-> Undefined],
   targetDistance |-> Undefined, out |-> NullRef, threw |-> FALSE]

\* new LinePath(waypoints, isOpen): without segments when createPath threw
LinePath(waypoints, isOpen) ==
  The({[isOpen |-> isOpen, segments |-> r.segments, pathLength |-> r.pathLength,
        threw |-> r.threw, made |-> "constructor", given |-> waypoints, probe |-> NoProbe]
       : r \in {createPath(waypoints, isOpen)}})

-----------------------------------------------------------------------------
(* FollowPath, an Arrive whose target is a point of the path *)

MineShared(b) == "follow"

\* the field of the state that holds the fields of the FollowPath b
Mine(b) == IF b = "follow2" THEN "follow2" ELSE "follow"

ApproachesAnEndOfAnyPath(b, st, targetDistance) ==
  /\ st[Mine(b)].arriveEnabled
  /\ IF st[Mine(b)].pathOffset >= 0
     THEN targetDistance > path.pathLength - params[b].decelerationRadius
     ELSE targetDistance < params[b].decelerationRadius

\* "Use Arrive to approach the last point of the path" or the first one
ApproachesAnEnd(b, st, targetDistance) ==
  /\ st[Mine(b)].arriveEnabled
  /\ path.isOpen
  /\ IF st[Mine(b)].pathOffset >= 0
     THEN targetDistance > path.pathLength - params[b].decelerationRadius
     ELSE targetDistance < params[b].decelerationRadius

-----------------------------------------------------------------------------
(* Wander.  A field the constructor left unassigned holds Undefined, and    *)
(* arithmetic on it yields NaN as it does in the code.                      *)

IsNumber(x) == x # NaN /\ x # Undefined

jsAdd(a, b) == IF IsNumber(a) /\ IsNumber(b) THEN a + b ELSE NaN

jsMul(a, b) == IF IsNumber(a) /\ IsNumber(b) THEN Mul(a, b) ELSE NaN

\* Math.sin on [0, PI]: 16x(PI - x) / (5 PI^2 - 4x(PI - x)), within 0.002
SinHalfTurn(x) == QuoT(16 * x * (PI - x) * Unit, 5 * PI * PI - 4 * x * (PI - x))

Sin(a) ==
  The({IF w <= PI THEN SinHalfTurn(w) ELSE -SinHalfTurn(w - PI) : w \in {a % PI2}})

Cos(a) == Sin(a + PI \div 2)

\* the 2D Steerable's angleToVector
angleToVector(angle) == IF IsNumber(angle) THEN Vec(-Sin(angle), Cos(angle)) ELSE NaNVec

\* a.scaleAndAdd(v, s) where a, v or s may fail to be a number
jsScaleAndAdd(a, v, s) ==
  IF a = NaNVec \/ v = NaNVec \/ ~IsNumber(s) THEN NaNVec ELSE scaleAndAdd(a, v, s)

randomTriangularOfFirstDraw(max) == jsMul(random[1], max)

\* (Math.random() - Math.random()) * max
randomTriangular(max) == jsMul(random[1] - random[2], max)

\* face(steering, targetPosition) of the Wander; a target that is not a
\* number fails every comparison and leaves an angular part that is not one
wanderFace(b, buf, targetPosition) ==
  IF targetPosition # NaNVec THEN face(b, buf, targetPosition)
  ELSE The({
    IF threshold.threw
    THEN Throw(Accel(NaNVec, buf.angular),
               Read(getActualLimiter(b), {"zeroLinearSpeedThreshold"}))
    ELSE IF maxAngularSpeed.threw
    THEN Throw(Accel(NaNVec, buf.angular),
               Read(getActualLimiter(b), {"zeroLinearSpeedThreshold", "maxAngularSpeed"}))
    ELSE IF maxAngularAcceleration.threw
    THEN Throw(Accel(NaNVec, NaN),
               Read(getActualLimiter(b), {"zeroLinearSpeedThreshold", "maxAngularSpeed",
                                          "maxAngularAcceleration"}))
    ELSE Return(Accel(ZeroVec, NaN),
                Read(getActualLimiter(b), {"zeroLinearSpeedThreshold", "maxAngularSpeed",
                                           "maxAngularAcceleration"}))
    : threshold \in {Get(getActualLimiter(b), "zeroLinearSpeedThreshold")},
      maxAngularSpeed \in {Get(getActualLimiter(b), "maxAngularSpeed")},
      maxAngularAcceleration \in {Get(getActualLimiter(b), "maxAngularAcceleration")}})

\* v.nor().scale(s)
norScale(v, s) ==
  IF v = NaNVec THEN NaNVec
  ELSE IF len(v) = 0 THEN v
  ELSE scaleRatio(v, s, len(v))

\* Wander.calculateRealSteering
wanderSteering(b, buf, st) ==
  The({
   The({
    The({
      The({
        IF maxLinearAcceleration.threw
        THEN [placed EXCEPT ![buf].linear = angleToVector(targetOrientation),
                            !.threw = TRUE,
                            !.reads = @ \cup Read(getActualLimiter(b),
                                                  {"maxLinearAcceleration"})]
        ELSE IF placed.wander.faceEnabled
        THEN The({
          IF faced.threw
          THEN [placed EXCEPT ![buf] = faced.acc, !.threw = TRUE,
                              !.reads = @ \cup faced.reads
                                          \cup Read(getActualLimiter(b),
                                                    {"maxLinearAcceleration"})]
          ELSE [placed EXCEPT ![buf] =
                                Accel(scale(angleToVector(placed.owner.orientation),
                                            maxLinearAcceleration.value),
                                      faced.acc.angular),
                              !.reads = @ \cup faced.reads
                                          \cup Read(getActualLimiter(b),
                                                    {"maxLinearAcceleration"})]
          : faced \in {wanderFace(b, Accel(angleToVector(targetOrientation),
                                           placed[buf].angular),
                                  placed.wander.internalTargetPosition)}})
        ELSE [placed EXCEPT ![buf] =
                              Accel(norScale(
                                      IF placed.wander.internalTargetPosition = NaNVec
                                      THEN NaNVec
                                      ELSE sub(placed.wander.internalTargetPosition,
                                               placed.owner.position),
                                      maxLinearAcceleration.value), 0),
                            !.reads = @ \cup Read(getActualLimiter(b),
                                                  {"maxLinearAcceleration"})]
        : maxLinearAcceleration \in {Get(getActualLimiter(b), "maxLinearAcceleration")}})
      : placed \in
          {[turned EXCEPT
              !.wander.wanderCenter = wanderCenter,
              !.wander.internalTargetPosition =
                 jsScaleAndAdd(wanderCenter, angleToVector(targetOrientation),
                               turned.wander.wanderRadius)]
           : wanderCenter \in {jsScaleAndAdd(turned.owner.position,
                                            angleToVector(turned.owner.orientation),
                                            turned.wander.wanderOffset)}}})
   : targetOrientation \in {jsAdd(turned.wander.wanderOrientation, turned.owner.orientation)}})
  : turned \in
      {[st EXCEPT !.wander.wanderOrientation =
                    jsAdd(@, randomTriangular(jsMul(st.wander.wanderRate, deltaTime)))]}})

-----------------------------------------------------------------------------

\* "Seek the target position"
seek(b, buf, targetPosition) ==
  The({IF maxLinearAcceleration.threw
       THEN Throw(Accel(IF len(toTarget) = 0 THEN toTarget
                        ELSE scaleRatio(toTarget, Unit, len(toTarget)), buf.angular),
                  Read(getActualLimiter(b), {"maxLinearAcceleration"}))
       ELSE Return(Accel(IF len(toTarget) = 0 THEN toTarget
                         ELSE scaleRatio(toTarget, maxLinearAcceleration.value,
                                         len(toTarget)), 0),
                   Read(getActualLimiter(b), {"maxLinearAcceleration"}))
       : toTarget \in {sub(targetPosition, owner.position)},
         maxLinearAcceleration \in {Get(getActualLimiter(b), "maxLinearAcceleration")}})

\* FollowPath.calculateRealSteering; a target that is not a number makes the
\* linear output not a number on either way out
followPath(b, buf, st) ==
  The({
    The({
      IF position.threw THEN [located EXCEPT !.threw = TRUE]
      ELSE The({
        IF position.out = NaNVec
        THEN [s EXCEPT ![buf] = Accel(NaNVec, 0),
                       !.reads = @ \cup Read(getActualLimiter(b), {"maxLinearAcceleration"})]
        ELSE IF ApproachesAnEnd(b, s, param.distance + s[Mine(b)].pathOffset)
        THEN Leaf(s, buf, arrive(b, s[buf], position.out))
        ELSE Leaf(s, buf, seek(b, s[buf], position.out))
        : s \in {[located EXCEPT ![Mine(b)].internalTargetPosition = position.out]}})
      : param \in {located[Mine(b)].pathParam},
        position \in {calculateTargetPosition(path, located[Mine(b)].internalTargetPosition,
                                           located[Mine(b)].pathParam.distance
                                             + located[Mine(b)].pathOffset)}})
    : located \in
        {IF st[Mine(b)].predictionTime = 0
         THEN [st EXCEPT ![Mine(b)].pathParam = calculateDistance(path, st.owner.position,
                                                                st[Mine(b)].pathParam)]
         ELSE [st EXCEPT ![buf].linear =
                           scaleAndAdd(st.owner.position, st.owner.linearVelocity,
                                       st[Mine(b)].predictionTime),
                         ![Mine(b)].pathParam =
                           calculateDistance(path,
                                             scaleAndAdd(st.owner.position,
                                                         st.owner.linearVelocity,
                                                         st[Mine(b)].predictionTime),
                                             st[Mine(b)].pathParam)]}})

-----------------------------------------------------------------------------
(* The compound behaviours and the dispatch *)

\* PrioritySteering.calculateRealSteering: "If we're above the threshold"
AboveThresholdOrEqual(acc) == calculateSquareMagnitude(acc) >= Sq(epsilon)

AboveThreshold(acc) == calculateSquareMagnitude(acc) > Sq(epsilon)

RECURSIVE calculateSteering(_, _, _, _)
RECURSIVE calculateRealSteering(_, _, _)
RECURSIVE PriorityLoop(_, _, _, _)
RECURSIVE BlendedLoop(_, _, _, _)

\* PrioritySteering.calculateRealSteering: the for loop from index i (1-based
\* here, 0-based in selectedBehaviorIndex) and the return after it
PriorityLoop(i, n, buf, st) ==
  IF i > n THEN (IF n > 0 THEN st ELSE Put(st, buf, setZero(st[buf])))
  ELSE The({IF st2.threw THEN st2
            ELSE IF AboveThreshold(st2[buf]) THEN st2
            ELSE PriorityLoop(i + 1, n, buf, st2)
            : st2 \in {calculateSteering(behaviors[i], "priority", buf,
                                         [st EXCEPT !.selectedBehaviorIndex = i - 1])}})

\* BlendedSteering.calculateRealSteering: the for loop from index i
BlendedLoop(i, n, buf, st) ==
  IF i > n THEN st
  ELSE The({IF st1.threw THEN st1
            ELSE The({BlendedLoop(i + 1, n, buf, st2)
                      : st2 \in {Put(st1, buf,
                                     mulAdd(st1[buf], st1.steering, list[i].weight))}})
            : st1 \in {calculateSteering(list[i].behavior, "blended", "steering", st)}})

\* BlendedSteering.calculateRealSteering: "Crop the result"
BlendedCrop(buf, looped) ==
  The({
  LET actualLimiter == getActualLimiter("blended")
      maxLinearAcceleration == Get(actualLimiter, "maxLinearAcceleration")
      limited == limit(st[buf].linear, maxLinearAcceleration.value)
      maxAngularAcceleration == Get(actualLimiter, "maxAngularAcceleration")
      angular == st[buf].angular
      both == Read(actualLimiter, {"maxLinearAcceleration", "maxAngularAcceleration"})
  IN IF st.threw THEN st
     ELSE IF maxLinearAcceleration.threw
          THEN Leaf(st, buf, Throw(st[buf], Read(actualLimiter, {"maxLinearAcceleration"})))
     ELSE IF maxAngularAcceleration.threw
          THEN Leaf(st, buf, Throw(Accel(limited, angular), both))
     ELSE Leaf(st, buf, Return(Accel(limited,
                                     IF angular > maxAngularAcceleration.value
                                     THEN maxAngularAcceleration.value ELSE angular),
                               both))
  : st \in {looped}})

calculateRealSteering(b, buf, st) ==
  CASE Kind(b) = "PrioritySteering" ->
         PriorityLoop(1, Len(behaviors), buf, [st EXCEPT !.selectedBehaviorIndex = -1])
    [] Kind(b) = "BlendedSteering" ->
         BlendedCrop(buf, BlendedLoop(1, Len(list), buf, Put(st, buf, setZero(st[buf]))))
    [] Kind(b) = "Arrive" -> Leaf(st, buf, arrive(b, st[buf], target.position))
    [] Kind(b) = "ReachOrientation" ->
         Leaf(st, buf, reachOrientation(b, st[buf], target.orientation))
    [] Kind(b) = "Face" -> Leaf(st, buf, face(b, st[buf], target.position))
    [] Kind(b) = "LookWhereYouAreGoing" -> Leaf(st, buf, lookWhereYouAreGoing(b, st[buf]))
    [] Kind(b) = "Jump" -> jumpSteering(b, buf, st)
    [] Kind(b) = "CollisionAvoidance" -> collisionAvoidance(b, buf, st)
    [] Kind(b) = "FollowPath" -> followPath(b, buf, st)
    [] Kind(b) = "RaycastObstacleAvoidance" -> raycastObstacleAvoidance(b, buf, st)
    [] Kind(b) = "Wander" -> wanderSteering(b, buf, st)
    [] Kind(b) = "Custom" -> Put(st, buf, CustomSteering(b))

calculateSteering(b, parent, buf, st) ==
  The({[r EXCEPT !.trace = Append(@, [behavior |-> b, parent |-> parent,
                                      steering |-> r[buf], threw |-> r.threw])]
       : r \in {IF isEnabled(b) THEN The({calculateRealSteering(b, buf, s) : s \in {st}})
                ELSE Put(st, buf, setZero(st[buf]))}})

-----------------------------------------------------------------------------
(* The host's operations *)

NoCall == [root |-> "none", trace |-> <<>>, threw |-> FALSE, reads |-> {}]

ChildrenOf(trace, parent) == SelectSeq(trace, LAMBDA e : e.parent = parent)

\* what the PrioritySteering handed back in the calls of this trace: the index
\* of the child whose acceleration its evaluation returned, -1 when the list
\* was empty; unchanged when the trace holds no completed evaluation of it
ReturnedBy(trace) ==
  LET mine == SelectSeq(trace, LAMBDA e : e.behavior = "priority")
  IN IF mine = <<>> \/ ~enabled["priority"] \/ mine[1].threw THEN returned
     ELSE Len(ChildrenOf(trace, "priority")) - 1

\* the state a call of the host starts from
Frame ==
  [out |-> out, steering |-> steering, selectedBehaviorIndex |-> selectedBehaviorIndex,
   trace |-> <<>>, threw |-> FALSE, reads |-> {},
   owner |-> owner, agents |-> agents, proximity |-> proximity, found |-> found,
   jump |-> jump, callback |-> callback, avoid |-> avoid, follow |-> follow,
   follow2 |-> follow2, proximity2 |-> proximity2, raycast |-> raycast,
   wander |-> wander]

\* one tick: the host calls b.calculateSteering(out)
Evaluate(b) ==
  \E st \in {calculateSteering(b, "host", "out", Frame)} :
     /\ out' = st.out
     /\ steering' = st.steering
     /\ selectedBehaviorIndex' = st.selectedBehaviorIndex
     /\ call' = [root |-> b, trace |-> st.trace, threw |-> st.threw, reads |-> st.reads]
     /\ returned' = ReturnedBy(st.trace)
     /\ owner' = st.owner
     /\ agents' = st.agents
     /\ proximity' = st.proximity
     /\ found' = st.found
     /\ jump' = st.jump
     /\ callback' = st.callback
     /\ avoid' = st.avoid
     /\ follow' = st.follow
     /\ follow2' = st.follow2
     /\ proximity2' = st.proximity2
     /\ raycast' = st.raycast
     /\ wander' = st.wander
     /\ UNCHANGED <<target, enabled, limiter, behaviors, epsilon, list, params, tickId, path,
                    collisions, deltaTime, random>>

\* the host asks the proximity for the neighbours itself, with a callback
\* that accepts the agents of accept
Host_findNeighbors(accept) ==
  \E st \in {findNeighbors(Probe(accept), Frame)} :
     /\ owner' = st.owner
     /\ agents' = st.agents
     /\ proximity' = st.proximity
     /\ found' = st.found
     /\ call' = NoCall
     /\ UNCHANGED <<target, enabled, limiter, behaviors, epsilon, selectedBehaviorIndex,
                    list, steering, params, out, returned, tickId, jumpVars, avoid, pathVars,
                    restVars>>

\* the host asks the second proximity for the neighbours of its owner
Other_findNeighbors(accept) ==
  \E st \in {findNeighborsOf("proximity2", Probe(accept), Frame)} :
     /\ owner' = st.owner
     /\ agents' = st.agents
     /\ proximity2' = st.proximity2
     /\ call' = NoCall
     /\ UNCHANGED <<target, enabled, limiter, behaviors, epsilon, selectedBehaviorIndex,
                    list, steering, params, out, returned, proximity, tickId, found,
                    jumpVars, avoid, pathVars, follow2, raycast, collisions, wander,
                    deltaTime, random>>

\* RaycastObstacleAvoidance.setRayConfiguration, the configuration given by
\* the rays it updates
setRayConfiguration(rays) ==
  /\ raycast' = [raycast EXCEPT !.rays = rays]
  /\ call' = NoCall
  /\ UNCHANGED <<owner, target, enabled, limiter, behaviors, epsilon, selectedBehaviorIndex,
                 list, steering, params, out, returned>>
  /\ UNCHANGED <<proximityVars, jumpVars, avoid, pathVars, follow2, proximity2,
                 collisions, wander, deltaTime, random>>

\* the host's world changes: the detector finds collision for the ray from
\* now on, nothing when collision is NullRef
World_collision(ray, collision) ==
  /\ collisions' = [collisions EXCEPT ![ray] = collision]
  /\ call' = NoCall
  /\ UNCHANGED <<owner, target, enabled, limiter, behaviors, epsilon, selectedBehaviorIndex,
                 list, steering, params, out, returned>>
  /\ UNCHANGED <<proximityVars, jumpVars, avoid, pathVars, follow2, proximity2,
                 raycast, wander, deltaTime, random>>

\* Wander.setWanderOffset, setWanderRadius, setWanderRate,
\* setWanderOrientation, setFaceEnabled
setWanderField(field, value) ==
  /\ wander[field] # value
  /\ wander' = [wander EXCEPT ![field] = value]
  /\ call' = NoCall
  /\ UNCHANGED <<owner, target, enabled, limiter, behaviors, epsilon, selectedBehaviorIndex,
                 list, steering, params, out, returned>>
  /\ UNCHANGED <<proximityVars, jumpVars, avoid, pathVars, follow2, proximity2,
                 raycast, collisions, deltaTime, random>>

\* the host's frame: getDeltaTime returns dt from now on
Host_deltaTime(dt) ==
  /\ deltaTime # dt
  /\ deltaTime' = dt
  /\ call' = NoCall
  /\ UNCHANGED <<owner, target, enabled, limiter, behaviors, epsilon, selectedBehaviorIndex,
                 list, steering, params, out, returned>>
  /\ UNCHANGED <<proximityVars, jumpVars, avoid, pathVars, follow2, proximity2,
                 raycast, collisions, wander, random>>

\* the generator's state: the next calls of Math.random return first and second
Math_random(first, second) ==
  /\ random # <<first, second>>
  /\ random' = <<first, second>>
  /\ call' = NoCall
  /\ UNCHANGED <<owner, target, enabled, limiter, behaviors, epsilon, selectedBehaviorIndex,
                 list, steering, params, out, returned>>
  /\ UNCHANGED <<proximityVars, jumpVars, avoid, pathVars, follow2, proximity2,
                 raycast, collisions, wander, deltaTime>>

\* the bounds of the model
MaxBehaviors == 4

MaxList == 2

MaxDisabled == 2

Location_setPosition(p) ==
  /\ target.position # p
  /\ target' = [target EXCEPT !.position = p]
  /\ call' = NoCall
  /\ UNCHANGED worldVars
  /\ UNCHANGED <<owner, enabled, limiter, behaviors, epsilon, selectedBehaviorIndex,
                 list, steering, params, out, returned>>

\* PrioritySteering.add
PriorityAdd(b) ==
  /\ Len(behaviors) < MaxBehaviors
  /\ \A i \in 1..Len(behaviors) : behaviors[i] # b
  /\ behaviors' = Append(behaviors, b)
  /\ call' = NoCall
  /\ UNCHANGED worldVars
  /\ UNCHANGED <<owner, target, enabled, limiter, epsilon, selectedBehaviorIndex,
                 list, steering, params, out, returned>>

\* BlendedSteering.add
BlendedAdd(b, weight) ==
  /\ Len(list) < MaxList
  /\ list' = Append(list, [behavior |-> b, weight |-> weight])
  /\ call' = NoCall
  /\ UNCHANGED worldVars
  /\ UNCHANGED <<owner, target, enabled, limiter, behaviors, epsilon,
                 selectedBehaviorIndex, steering, params, out, returned>>

setEnabled(b, e) ==
  /\ enabled[b] # e
  /\ enabled' = [enabled EXCEPT ![b] = e]
  /\ call' = NoCall
  /\ UNCHANGED worldVars
  /\ UNCHANGED <<owner, target, limiter, behaviors, epsilon, selectedBehaviorIndex,
                 list, steering, params, out, returned>>

setLimiter(b, l) ==
  /\ limiter[b] # l
  /\ limiter' = [limiter EXCEPT ![b] = l]
  /\ call' = NoCall
  /\ UNCHANGED worldVars
  /\ UNCHANGED <<owner, target, enabled, behaviors, epsilon, selectedBehaviorIndex,
                 list, steering, params, out, returned>>

\* the owner's Location.setOrientation and the target's
Location_setOrientation(who, o) ==
  /\ IF who = "owner"
     THEN owner.orientation # o /\ owner' = [owner EXCEPT !.orientation = o]
                                /\ target' = target
     ELSE target.orientation # o /\ target' = [target EXCEPT !.orientation = o]
                                 /\ owner' = owner
  /\ call' = NoCall
  /\ UNCHANGED worldVars
  /\ UNCHANGED <<enabled, limiter, behaviors, epsilon, selectedBehaviorIndex,
                 list, steering, params, out, returned>>

\* the host's simulation step gives the owner a new linear velocity
Steerable_linearVelocity(v) ==
  /\ owner.linearVelocity # v
  /\ owner' = [owner EXCEPT !.linearVelocity = v]
  /\ call' = NoCall
  /\ UNCHANGED worldVars
  /\ UNCHANGED <<target, enabled, limiter, behaviors, epsilon, selectedBehaviorIndex,
                 list, steering, params, out, returned>>

\* setArrivalTolerance, setAlignTolerance, setDecelerationRadius, setTimeToTarget
setParameter(b, name, value) ==
  /\ params[b][name] # value
  /\ params' = [params EXCEPT ![b][name] = value]
  /\ call' = NoCall
  /\ UNCHANGED worldVars
  /\ UNCHANGED <<owner, target, enabled, limiter, behaviors, epsilon,
                 selectedBehaviorIndex, list, steering, out, returned>>

setEpsilon(e) ==
  /\ epsilon # e
  /\ epsilon' = e
  /\ call' = NoCall
  /\ UNCHANGED worldVars
  /\ UNCHANGED <<owner, target, enabled, limiter, behaviors, selectedBehaviorIndex,
                 list, steering, params, out, returned>>


\* the largest tick id the model lets the host reach
MaxTick == 2

\* the host's frame counter: "this.tickId + 1"
nextTick ==
  /\ tickId < MaxTick
  /\ tickId' = tickId + 1
  /\ call' = NoCall
  /\ UNCHANGED <<owner, target, enabled, limiter, behaviors, epsilon, selectedBehaviorIndex,
                 list, steering, params, out, returned>>
  /\ UNCHANGED <<agents, proximity, found, jumpVars, avoid, restVars, pathVars>>

\* the host's simulation step moves a Steerable
Steerable_position(name, p) ==
  /\ IF name = "owner"
     THEN owner.position # p /\ owner' = [owner EXCEPT !.position = p] /\ agents' = agents
     ELSE agents[name].position # p /\ agents' = [agents EXCEPT ![name].position = p]
                                    /\ owner' = owner
  /\ call' = NoCall
  /\ UNCHANGED <<target, enabled, limiter, behaviors, epsilon, selectedBehaviorIndex,
                 list, steering, params, out, returned>>
  /\ UNCHANGED <<proximity, tickId, found, jumpVars, avoid, restVars, pathVars>>

\* RadiusProximity.setRadius
setRadius(radius) ==
  /\ proximity.radius # radius
  /\ proximity' = [proximity EXCEPT !.radius = radius]
  /\ call' = NoCall
  /\ UNCHANGED <<owner, target, enabled, limiter, behaviors, epsilon, selectedBehaviorIndex,
                 list, steering, params, out, returned>>
  /\ UNCHANGED <<agents, tickId, found, jumpVars, avoid, restVars, pathVars>>

\* Jump.setJumpDescriptor; the record of callback calls starts afresh
setJumpDescriptor(jumpDescriptor) ==
  /\ jump' = [jump EXCEPT !.jumpDescriptor = jumpDescriptor, !.target = "null",
                          !.isJumpAchievable = FALSE]
  /\ callback' = [calls |-> <<>>, ranUp |-> FALSE]
  /\ call' = NoCall
  /\ UNCHANGED <<owner, target, enabled, limiter, behaviors, epsilon, selectedBehaviorIndex,
                 list, steering, params, out, returned>>
  /\ UNCHANGED <<proximityVars, avoid, restVars, pathVars>>

\* Jump.setMaxVerticalVelocity, setTakeoffPositionTolerance, setTakeoffVelocityTolerance
setJumpField(name, value) ==
  /\ jump[name] # value
  /\ jump' = [jump EXCEPT ![name] = value]
  /\ call' = NoCall
  /\ UNCHANGED <<owner, target, enabled, limiter, behaviors, epsilon, selectedBehaviorIndex,
                 list, steering, params, out, returned>>
  /\ UNCHANGED <<proximityVars, callback, avoid, restVars, pathVars>>

\* the host constructs a LinePath
LinePath_new(waypoints, isOpen) ==
  /\ path' = LinePath(waypoints, isOpen)
  /\ call' = NoCall
  /\ UNCHANGED <<owner, target, enabled, limiter, behaviors, epsilon, selectedBehaviorIndex,
                 list, steering, params, out, returned>>
  /\ UNCHANGED <<proximityVars, jumpVars, avoid, restVars, follow>>

\* the host calls createPath on the LinePath it has
LinePath_createPath(waypoints) ==
  /\ path.segments # <<>>
  /\ \E r \in {createPath(waypoints, path.isOpen)} :
       path' = IF r.threw
               THEN [path EXCEPT !.threw = TRUE, !.made = "createPath", !.given = waypoints]
               ELSE [path EXCEPT !.threw = FALSE, !.made = "createPath",
                                 !.given = waypoints, !.segments = r.segments,
                                 !.pathLength = r.pathLength, !.probe = NoProbe]
  /\ call' = NoCall
  /\ UNCHANGED <<owner, target, enabled, limiter, behaviors, epsilon, selectedBehaviorIndex,
                 list, steering, params, out, returned>>
  /\ UNCHANGED <<proximityVars, jumpVars, avoid, restVars, follow>>

\* the host calls calculateDistance(position, param) with a parameter of its own
LinePath_calculateDistance(position) ==
  /\ path.segments # <<>>
  /\ path' = [path EXCEPT !.probe = [NoProbe EXCEPT !.position = position,
                                                    !.param = calculateDistance(path, position,
                                                                                path.probe.param)]]
  /\ call' = NoCall
  /\ UNCHANGED <<owner, target, enabled, limiter, behaviors, epsilon, selectedBehaviorIndex,
                 list, steering, params, out, returned>>
  /\ UNCHANGED <<proximityVars, jumpVars, avoid, restVars, follow>>

\* the host calls calculateTargetPosition(out, param, targetDistance)
LinePath_calculateTargetPosition(targetDistance) ==
  /\ path.segments # <<>>
  /\ path.probe.position # NullRef
  /\ \E r \in {calculateTargetPosition(path, ZeroVec, targetDistance)} :
       path' = [path EXCEPT !.probe.targetDistance = targetDistance,
                            !.probe.out = r.out, !.probe.threw = r.threw]
  /\ call' = NoCall
  /\ UNCHANGED <<owner, target, enabled, limiter, behaviors, epsilon, selectedBehaviorIndex,
                 list, steering, params, out, returned>>
  /\ UNCHANGED <<proximityVars, jumpVars, avoid, restVars, follow>>

\* the host's simulation step gives a Steerable other than the owner a new
\* linear velocity
Agent_linearVelocity(name, v) ==
  /\ agents[name].linearVelocity # v
  /\ agents' = [agents EXCEPT ![name].linearVelocity = v]
  /\ call' = NoCall
  /\ UNCHANGED <<owner, target, enabled, limiter, behaviors, epsilon, selectedBehaviorIndex,
                 list, steering, params, out, returned>>
  /\ UNCHANGED <<proximity, tickId, found, jumpVars, avoid, restVars, pathVars>>

\* FollowPath.setPathOffset
setPathOffset(pathOffset) ==
  /\ follow.pathOffset # pathOffset
  /\ follow' = [follow EXCEPT !.pathOffset = pathOffset]
  /\ call' = NoCall
  /\ UNCHANGED <<owner, target, enabled, limiter, behaviors, epsilon, selectedBehaviorIndex,
                 list, steering, params, out, returned>>
  /\ UNCHANGED <<proximityVars, jumpVars, avoid, restVars, path>>

\* FollowPath.setArriveEnabled
setArriveEnabled(arriveEnabled) ==
  /\ follow.arriveEnabled # arriveEnabled
  /\ follow' = [follow EXCEPT !.arriveEnabled = arriveEnabled]
  /\ call' = NoCall
  /\ UNCHANGED <<owner, target, enabled, limiter, behaviors, epsilon, selectedBehaviorIndex,
                 list, steering, params, out, returned>>
  /\ UNCHANGED <<proximityVars, jumpVars, avoid, restVars, path>>

\* FollowPath.setPredictionTime
setPredictionTime(predictionTime) ==
  /\ follow.predictionTime # predictionTime
  /\ follow' = [follow EXCEPT !.predictionTime = predictionTime]
  /\ call' = NoCall
  /\ UNCHANGED <<owner, target, enabled, limiter, behaviors, epsilon, selectedBehaviorIndex,
                 list, steering, params, out, returned>>
  /\ UNCHANGED <<proximityVars, jumpVars, avoid, restVars, path>>

-----------------------------------------------------------------------------
(* The state after construction *)

DefaultArrive == [arrivalTolerance |-> 0, decelerationRadius |-> 0,
                  timeToTarget |-> Unit \div 10]

DefaultReach == [alignTolerance |-> 0, decelerationRadius |-> 0,
                 timeToTarget |-> Unit \div 10]

BaseOwner ==
  [position |-> ZeroVec, linearVelocity |-> ZeroVec, orientation |-> 0,
   angularVelocity |-> 0, maxLinearSpeed |-> 2 * Unit,
   maxLinearAcceleration |-> 4 * Unit, maxAngularSpeed |-> 2 * Unit,
   maxAngularAcceleration |-> 2 * Unit, boundingRadius |-> 0, tagged |-> FALSE]

BaseTarget == [position |-> Vec(3 * Unit, 4 * Unit), orientation |-> Unit]

ConstructedBehaviors ==
  /\ enabled = [b \in Behaviors |-> TRUE]
  /\ limiter = [b \in Behaviors |-> NullRef]
  /\ behaviors = <<>>
  /\ epsilon = Unit \div 1000
  /\ selectedBehaviorIndex = Undefined
  /\ list = <<>>
  /\ steering = ZeroAccel
  /\ params = [b \in {"arrive", "reach", "face", "look", "follow", "follow2", "wander"} |->
                 IF b \in {"arrive", "follow", "follow2"} THEN DefaultArrive
                 ELSE DefaultReach]
  /\ out = ZeroAccel
  /\ returned = -1
  /\ call = NoCall

\* new Wander(owner, getDeltaTime): the constructor assigns none of the numeric
\* fields; faceEnabled, unassigned as well, is falsy.  The host's delta time
\* starts at 0.
ConstructedWander ==
  /\ wander = [wanderOffset |-> Undefined, wanderRadius |-> Undefined,
               wanderRate |-> Undefined, wanderOrientation |-> Undefined,
               faceEnabled |-> FALSE, internalTargetPosition |-> ZeroVec,
               wanderCenter |-> ZeroVec]
  /\ deltaTime = 0
  /\ random = <<0, 0>>

\* new RaycastObstacleAvoidance(owner, rayConfiguration, raycastCollisionDetector, 1),
\* the configuration of three rays, in a world without obstacles
ConstructedRaycast ==
  /\ raycast = [rays |-> <<1, 2, 3>>, distanceFromBoundary |-> Unit,
                outputCollision |-> Collision(ZeroVec, ZeroVec),
                minOutputCollision |-> Collision(ZeroVec, ZeroVec), cast |-> <<>>]
  /\ collisions = [ray \in RayIds |-> NullRef]

\* new RadiusProximity(a1, [owner, a1, a2], 8, getTickId)
ConstructedProximity2 ==
  proximity2 = [radius |-> 8 * Unit, lastTime |-> 0, agents |-> <<"owner", "a1", "a2">>,
                owner |-> "a1"]

\* new RadiusProximity(owner, [owner, a1, a2], 5, getTickId), the neighbours
\* at (3, 0) and (10, 0), the frame counter at 0
ConstructedProximity ==
  /\ agents = [n \in AgentNames |->
                 Agent(IF n = "a1" THEN Vec(3 * Unit, 0) ELSE Vec(10 * Unit, 0), ZeroVec, 0)]
  /\ proximity = [radius |-> 5 * Unit, lastTime |-> 0, agents |-> <<"owner", "a1", "a2">>,
                  owner |-> "owner"]
  /\ tickId = 0
  /\ found = NoFind
  /\ ConstructedProximity2

\* a jump from (1, 0) up to (1.5, 1) under gravity (0, -10)
DefaultJumpDescriptor == JumpDescriptor(Vec(Unit, 0), Vec(Unit + Unit \div 2, Unit))

\* new Jump(owner, jumpDescriptor, gravity, handler, callback)
ConstructedJump ==
  /\ jump = [gravity |-> Vec(0, -10 * Unit), jumpDescriptor |-> DefaultJumpDescriptor,
             target |-> "null", isJumpAchievable |-> FALSE, airborneTime |-> 0,
             jumpTarget |-> [position |-> NullRef, linearVelocity |-> ZeroVec],
             takeoffPositionTolerance |-> Undefined,
             takeoffVelocityTolerance |-> Undefined,
             maxVerticalVelocity |-> Undefined, timeToTarget |-> Unit \div 10]
  /\ callback = [calls |-> <<>>, ranUp |-> FALSE]

\* new CollisionAvoidance(owner, proximity): the numbers and firstNeighbor
\* are assigned by the first calculateRealSteering
ConstructedAvoid ==
  avoid = [shortestTime |-> Undefined, firstNeighbor |-> "undefined",
           firstMinSeparation |-> Undefined, firstDistance |-> Undefined,
           firstRelativePosition |-> ZeroVec, firstRelativeVelocity |-> ZeroVec,
           relativeVelocity |-> ZeroVec]

\* new LinePath([(0,0), (4,0), (4,3)], true) and new FollowPath(owner, path)
ConstructedPath ==
  /\ path = LinePath(Waypoints(<<ZeroVec, Vec(4 * Unit, 0), Vec(4 * Unit, 3 * Unit)>>), TRUE)
  /\ follow = [pathOffset |-> 0, predictionTime |-> 0, arriveEnabled |-> TRUE,
               pathParam |-> [segmentIndex |-> Undefined, distance |-> Undefined],
               internalTargetPosition |-> ZeroVec]
  /\ follow2 = follow

ConstructedWorld ==
  /\ ConstructedProximity
  /\ ConstructedJump
  /\ ConstructedAvoid
  /\ ConstructedPath
  /\ ConstructedRaycast
  /\ ConstructedWander

Constructed ==
  /\ ConstructedBehaviors
  /\ ConstructedWorld

-----------------------------------------------------------------------------
(* PrioritySteering over host-supplied leaves *)

InitPriority ==
  /\ owner = BaseOwner
  /\ target = BaseTarget
  /\ Constructed

NextPriority ==
  \/ \E b \in Custom : PriorityAdd(b)
  \/ \E b \in {"nudge", "priority"}, e \in BOOLEAN : setEnabled(b, e)
  \/ \E e \in {0, Unit} : setEpsilon(e)
  \/ Evaluate("priority")

SpecPriority == InitPriority /\ [][NextPriority]_vars


\* what a host-supplied leaf writes when PrioritySteering or BlendedSteering
\* calls it in the current state
Expected(b) == IF enabled[b] THEN CustomSteering(b) ELSE ZeroAccel

SquareMagnitude(acc) ==
  acc.linear.x * acc.linear.x + acc.linear.y * acc.linear.y + acc.angular * acc.angular

\* the children of the list whose output is strictly above epsilon
Qualifying == {i \in 1..Len(behaviors) : SquareMagnitude(Expected(behaviors[i])) > epsilon * epsilon}

\* the position (1-based) at which an evaluation of the list stops
StopsAt ==
  IF Qualifying = {} THEN Len(behaviors)
  ELSE CHOOSE i \in Qualifying : \A j \in Qualifying : i <= j

\* children with magnitudes [0, 0, 5, 3] and epsilon 1
Magnitudes0053 ==
  /\ Len(behaviors) = 4
  /\ epsilon = Unit
  /\ SquareMagnitude(Expected(behaviors[1])) = 0
  /\ SquareMagnitude(Expected(behaviors[2])) = 0
  /\ SquareMagnitude(Expected(behaviors[3])) = 25 * Unit * Unit
  /\ SquareMagnitude(Expected(behaviors[4])) = 9 * Unit * Unit

\* C2: an enabled PrioritySteering evaluates its children in list order up to
\* and including the first one whose squared magnitude is strictly above
\* epsilon squared, evaluates none after it, and returns that child's output;
\* when none qualifies it evaluates them all and returns the last child's
\* output, and exactly zero when the list is empty.  With magnitudes
\* [0, 0, 5, 3] and epsilon 1 the output is that of the child at index 2.
C2_PriorityReturnsFirstAboveEpsilon ==
  (call.root = "priority" /\ enabled["priority"]) =>
    LET kids == ChildrenOf(call.trace, "priority")
    IN /\ ~call.threw
       /\ Len(kids) = StopsAt
       /\ \A i \in 1..StopsAt :
            /\ kids[i].behavior = behaviors[i]
            /\ kids[i].steering = Expected(behaviors[i])
       /\ out = IF Len(behaviors) = 0 THEN ZeroAccel ELSE Expected(behaviors[StopsAt])
       /\ Magnitudes0053 => (StopsAt = 3 /\ out = Expected(behaviors[3]))

C2_Witness ==
  /\ call.root = "priority"
  /\ enabled["priority"]
  /\ Magnitudes0053
  /\ Len(ChildrenOf(call.trace, "priority")) = 3
  /\ out = CustomSteering("push")

\* C7: getSelectedBehaviorIndex() is the index of the child whose acceleration
\* the last evaluation of the PrioritySteering returned, and -1 when no
\* child's acceleration has been returned (no evaluation yet, or an empty list).
C7_SelectedIndexIsReturnedChild == selectedBehaviorIndex = returned


-----------------------------------------------------------------------------
(* BlendedSteering over host-supplied leaves *)

Weights == {-Unit, Unit \div 2, 2 * Unit}

InitBlended ==
  /\ owner = BaseOwner
  /\ target = BaseTarget
  /\ Constructed

NextBlended ==
  \/ \E b \in {"nudge", "push", "spin"}, w \in Weights : BlendedAdd(b, w)
  \/ \E b \in {"push", "blended"}, e \in BOOLEAN : setEnabled(b, e)
  \/ \E l \in {NullRef, NeutralLimiter} : setLimiter("blended", l)
  \/ Evaluate("blended")

SpecBlended == InitBlended /\ [][NextBlended]_vars

\* the weighted sum of the outputs of the first i children of the list
RECURSIVE WeightedSum(_)
WeightedSum(i) ==
  IF i = 0 THEN ZeroAccel
  ELSE LET p == WeightedSum(i - 1)
           e == Expected(list[i].behavior)
           w == list[i].weight
       IN Accel(Vec(p.linear.x + QuoT(e.linear.x * w, Unit),
                    p.linear.y + QuoT(e.linear.y * w, Unit)),
                p.angular + QuoT(e.angular * w, Unit))

BlendedEvaluated == call.root = "blended" /\ enabled["blended"]

ResolvedMaxLinearAcceleration ==
  IF limiter["blended"] = NullRef THEN owner.maxLinearAcceleration ELSE Infinity

ResolvedMaxAngularAcceleration ==
  IF limiter["blended"] = NullRef THEN owner.maxAngularAcceleration ELSE Infinity

\* C4: after every BlendedSteering evaluation the linear magnitude of the
\* output is at most the resolved limiter's maxLinearAcceleration and the
\* absolute value of its angular component is at most the resolved limiter's
\* maxAngularAcceleration, for any child outputs and any weights.
C4_BlendedOutputWithinCaps ==
  BlendedEvaluated =>
    /\ \/ ResolvedMaxLinearAcceleration = Infinity
       \/ out.linear.x * out.linear.x + out.linear.y * out.linear.y
            <= ResolvedMaxLinearAcceleration * ResolvedMaxLinearAcceleration
    /\ Abs(out.angular) <= ResolvedMaxAngularAcceleration

\* C5: BlendedSteering evaluates each child once, in list order, into its
\* private buffer; its linear output is the weighted sum V of the children's
\* linear outputs when |V| is at most maxLinearAcceleration; when |V| is
\* above it the output points along V (cross product zero up to rounding,
\* positive dot product) and has magnitude maxLinearAcceleration (from below,
\* within three quanta); with the neutral
\* limiter the output is exactly the weighted sum.
C5_BlendedLinearIsClampedWeightedSum ==
  BlendedEvaluated =>
    LET n == Len(list)
        kids == ChildrenOf(call.trace, "blended")
        V == WeightedSum(n).linear
        V2 == V.x * V.x + V.y * V.y
        max == ResolvedMaxLinearAcceleration
        o == out.linear
        o2 == o.x * o.x + o.y * o.y
        slack == 3
    IN /\ ~call.threw
       /\ Len(kids) = n
       /\ \A i \in 1..n : /\ kids[i].behavior = list[i].behavior
                          /\ kids[i].steering = Expected(list[i].behavior)
       /\ n > 0 => steering = Expected(list[n].behavior)
       /\ max = Infinity => out = WeightedSum(n)
       /\ (max # Infinity /\ V2 <= max * max) => o = V
       /\ (max # Infinity /\ V2 > max * max) =>
            /\ Abs(o.x * V.y - o.y * V.x) <= Abs(V.x) + Abs(V.y)
            /\ o.x * V.x + o.y * V.y > 0
            /\ o2 <= max * max
            /\ o2 >= (max - slack) * (max - slack)

\* a clamped evaluation: 2 * push = (6, 8), magnitude 10 > 4
C5_Witness ==
  /\ BlendedEvaluated
  /\ limiter["blended"] = NullRef
  /\ list = <<[behavior |-> "push", weight |-> 2 * Unit]>>
  /\ enabled["push"]
  /\ out.linear = Vec((24 * Unit) \div 10, (32 * Unit) \div 10)


-----------------------------------------------------------------------------
(* A composed tree: PrioritySteering over Face, a BlendedSteering of Arrive *)
(* and a host-supplied leaf, and another host-supplied leaf.  Any behaviour *)
(* of it may be switched off, given a partial limiter, or evaluated by the  *)
(* host on its own.                                                          *)

TreeBehaviors == {"priority", "blended", "face", "arrive", "spin", "push"}

PartialLimiters == {LinearAccelerationLimiter(4 * Unit), LinearLimiter(4 * Unit, 2 * Unit)}

InitTree ==
  /\ owner = BaseOwner
  /\ target = BaseTarget
  /\ enabled = [b \in Behaviors |-> TRUE]
  /\ limiter = [b \in Behaviors |-> NullRef]
  /\ behaviors = <<"face", "blended", "push">>
  /\ epsilon = Unit \div 1000
  /\ selectedBehaviorIndex = Undefined
  /\ list = <<[behavior |-> "arrive", weight |-> Unit],
              [behavior |-> "spin", weight |-> Unit \div 2]>>
  /\ steering = ZeroAccel
  /\ params = [b \in {"arrive", "reach", "face", "look", "follow", "follow2", "wander"} |->
                 IF b \in {"arrive", "follow", "follow2"} THEN DefaultArrive
                 ELSE DefaultReach]
  /\ out = ZeroAccel
  /\ returned = -1
  /\ call = NoCall
  /\ ConstructedWorld

NextTree ==
  \/ \E b \in TreeBehaviors :
       /\ Cardinality({x \in Behaviors : ~enabled[x]}) < MaxDisabled
       /\ setEnabled(b, FALSE)
  \/ \E b \in TreeBehaviors : setEnabled(b, TRUE)
  \/ \E p \in {ZeroVec, BaseTarget.position} : Location_setPosition(p)
  \/ \E b \in {"priority", "blended"} : Evaluate(b)

SpecTree == InitTree /\ [][NextTree]_vars

\* the entries of the trace for the calls made on behaviour b
CallsOf(trace, b) == SelectSeq(trace, LAMBDA e : e.behavior = b)

\* the sum over the first i children of the BlendedSteering of weight times the
\* acceleration the child handed back, a switched-off child counting for nothing
RECURSIVE EnabledSum(_, _)
EnabledSum(kids, i) ==
  IF i = 0 THEN ZeroAccel
  ELSE LET p == EnabledSum(kids, i - 1)
           e == IF enabled[list[i].behavior] THEN kids[i].steering ELSE ZeroAccel
           w == list[i].weight
       IN Accel(Vec(p.linear.x + QuoT(e.linear.x * w, Unit),
                    p.linear.y + QuoT(e.linear.y * w, Unit)),
                p.angular + QuoT(e.angular * w, Unit))

WithinOwnerCaps(acc) ==
  /\ SquareMagnitude(Accel(acc.linear, 0))
       <= owner.maxLinearAcceleration * owner.maxLinearAcceleration
  /\ acc.angular <= owner.maxAngularAcceleration

\* C3: while a behaviour is switched off every evaluation of it hands back
\* exactly zero, without an Error and without evaluating any child of it; the
\* BlendedSteering's result is the weighted sum over its enabled children only
\* (when that sum is within the caps), whatever the weight of a disabled child;
\* and when the child whose output the PrioritySteering returns is a disabled
\* one, every child of the list was evaluated and none was above epsilon.
C3_DisabledYieldsZeroInsideCompounds ==
  LET trace == call.trace
      blended == CallsOf(trace, "blended")
      mixed == ChildrenOf(trace, "blended")
      priority == CallsOf(trace, "priority")
      kids == ChildrenOf(trace, "priority")
  IN /\ \A i \in 1..Len(trace) :
          ~enabled[trace[i].behavior] =>
            /\ trace[i].steering = ZeroAccel
            /\ ~trace[i].threw
            /\ ChildrenOf(trace, trace[i].behavior) = <<>>
     /\ (blended # <<>> /\ enabled["blended"]) =>
          /\ ~blended[1].threw
          /\ Len(mixed) = Len(list)
          /\ WithinOwnerCaps(EnabledSum(mixed, Len(list))) =>
               blended[1].steering = EnabledSum(mixed, Len(list))
     /\ (priority # <<>> /\ enabled["priority"]) =>
          /\ ~priority[1].threw
          /\ Len(kids) >= 1
          /\ priority[1].steering = kids[Len(kids)].steering
          /\ ~enabled[kids[Len(kids)].behavior] =>
               /\ Len(kids) = Len(behaviors)
               /\ \A i \in 1..Len(kids) :
                    SquareMagnitude(kids[i].steering) <= epsilon * epsilon

\* Face, first in the list, is switched off: the PrioritySteering passes over
\* its zero and returns the BlendedSteering's output
C3_Witness ==
  /\ call.root = "priority"
  /\ enabled["priority"]
  /\ ~enabled["face"]
  /\ Len(ChildrenOf(call.trace, "priority")) = 2
  /\ ChildrenOf(call.trace, "priority")[1].steering = ZeroAccel
  /\ selectedBehaviorIndex = 1
  /\ out.linear # ZeroVec

\* the same tree, with at most one behaviour at a time given a partial limiter
NextLimiter ==
  \/ \E b \in {"arrive", "face", "blended"}, l \in PartialLimiters :
       /\ \A x \in Behaviors : limiter[x] = NullRef
       /\ setLimiter(b, l)
  \/ \E b \in {"arrive", "face", "blended"} : setLimiter(b, NullRef)
  \/ \E p \in {ZeroVec, BaseTarget.position} : Location_setPosition(p)
  \/ \E b \in {"priority", "blended", "face"} : Evaluate(b)

SpecLimiter == InitTree /\ [][NextLimiter]_vars

\* an accessor read that the limiter it was invoked on does not declare
Undeclared(r) ==
  \/ r.kind = "LinearAccelerationLimiter" /\ r.cap # "maxLinearAcceleration"
  \/ r.kind = "LinearLimiter" /\ r.cap \in {"maxAngularSpeed", "maxAngularAcceleration"}

\* C6: whenever an evaluation reads from a partial limiter a cap that the
\* limiter does not declare, the call of the host ends by an Error, whatever
\* BlendedSteering or PrioritySteering encloses the behaviour that read it.
C6_UndeclaredCapReadPropagates ==
  \A r \in call.reads : Undeclared(r) => call.threw


-----------------------------------------------------------------------------
(* The same tree with every behaviour, composed or not, evaluated by the    *)
(* host on its own while switched off; the two compound behaviours are      *)
(* evaluated switched on as well, which evaluates their children.           *)

\* how many behaviours are switched off at a time
MaxGateDisabled == 1

NextGate ==
  \/ \E b \in Behaviors :
       /\ Cardinality({x \in Behaviors : ~enabled[x]}) < MaxGateDisabled
       /\ setEnabled(b, FALSE)
  \/ \E b \in Behaviors : setEnabled(b, TRUE)
  \/ \E b \in Behaviors :
       /\ ~enabled[b] \/ b \in {"priority", "blended"}
       /\ Evaluate(b)

SpecGate == InitTree /\ [][NextGate]_vars

-----------------------------------------------------------------------------
(* Arrive on its own *)

ArrivePositions == {ZeroVec, Vec(3 * Unit, 4 * Unit), Vec(6 * Unit, 8 * Unit)}

ArriveVelocities == {ZeroVec, Vec(Unit, 0), Vec(-Unit, 2 * Unit)}

InitArrive ==
  /\ owner = BaseOwner
  /\ target = BaseTarget
  /\ Constructed

NextArrive ==
  \/ \E p \in ArrivePositions : Location_setPosition(p)
  \/ \E v \in ArriveVelocities : Steerable_linearVelocity(v)
  \/ \E t \in {0, 5 * Unit} : setParameter("arrive", "arrivalTolerance", t)
  \/ \E r \in {0, 10 * Unit} : setParameter("arrive", "decelerationRadius", r)
  \/ \E t \in {Unit \div 10, Unit} : setParameter("arrive", "timeToTarget", t)
  \/ \E l \in {NullRef, LinearLimiter(Unit, 3 * Unit)} : setLimiter("arrive", l)
  \/ Evaluate("arrive")

SpecArrive == InitArrive /\ [][NextArrive]_vars

ArriveEvaluated == call.root = "arrive" /\ enabled["arrive"]

\* the caps Arrive reads: the override's when one is set, else the owner's
ArriveCaps ==
  IF limiter["arrive"] = NullRef
  THEN [maxLinearSpeed |-> owner.maxLinearSpeed,
        maxLinearAcceleration |-> owner.maxLinearAcceleration]
  ELSE [maxLinearSpeed |-> limiter["arrive"].maxLinearSpeed,
        maxLinearAcceleration |-> limiter["arrive"].maxLinearAcceleration]

\* C8: Arrive hands back exactly zero whenever the distance to the target is at
\* most arrivalTolerance, whatever the owner's velocity.  Otherwise the wanted
\* speed is maxLinearSpeed beyond decelerationRadius and maxLinearSpeed times
\* distance / decelerationRadius within it, the linear output is W = (wanted
\* velocity - owner velocity) / timeToTarget when |W| is at most
\* maxLinearAcceleration and points along W with magnitude maxLinearAcceleration
\* when it is above (from below, within three quanta), and the angular output
\* is 0.
C8_ArriveSpeedProfile ==
  ArriveEvaluated =>
    LET P == Vec(target.position.x - owner.position.x,
                 target.position.y - owner.position.y)
        d2 == P.x * P.x + P.y * P.y
        distance == Sqrt(d2)
        a == params["arrive"]
        caps == ArriveCaps
        speed == IF distance > a.decelerationRadius THEN caps.maxLinearSpeed
                 ELSE (caps.maxLinearSpeed * distance) \div a.decelerationRadius
        wanted == Vec(QuoT(P.x * speed, distance), QuoT(P.y * speed, distance))
        W == Vec(QuoT((wanted.x - owner.linearVelocity.x) * Unit, a.timeToTarget),
                 QuoT((wanted.y - owner.linearVelocity.y) * Unit, a.timeToTarget))
        W2 == W.x * W.x + W.y * W.y
        max == caps.maxLinearAcceleration
        o == out.linear
        o2 == o.x * o.x + o.y * o.y
    IN /\ ~call.threw
       /\ out.angular = 0
       /\ d2 <= a.arrivalTolerance * a.arrivalTolerance => out = ZeroAccel
       /\ distance > a.arrivalTolerance =>
            /\ W2 <= max * max => o = W
            /\ W2 > max * max =>
                 /\ Abs(o.x * W.y - o.y * W.x) <= Abs(W.x) + Abs(W.y)
                 /\ o.x * W.x + o.y * W.y > 0
                 /\ o2 <= max * max
                 /\ o2 >= (max - 3) * (max - 3)

\* inside the deceleration radius: distance 5 of radius 10 halves the speed 2,
\* the wanted velocity is (0.6, 0.8) and, the owner at rest and timeToTarget 1,
\* so is the output
C8_Witness ==
  /\ ArriveEvaluated
  /\ limiter["arrive"] = NullRef
  /\ target.position = Vec(3 * Unit, 4 * Unit)
  /\ owner.linearVelocity = ZeroVec
  /\ params["arrive"] = [arrivalTolerance |-> 0, decelerationRadius |-> 10 * Unit,
                         timeToTarget |-> Unit]
  /\ out = Accel(Vec((6 * Unit) \div 10, (8 * Unit) \div 10), 0)


-----------------------------------------------------------------------------
(* ReachOrientation, Face and LookWhereYouAreGoing on their own *)

Orientations == {Unit, PI + Unit \div 10, -3 * Unit}

\* offsets and velocities: none, below the threshold 0.001 in squared length
\* (0.02^2 + 0.01^2), at it (0.03^2 + 0.01^2), and well above
Vectors == {ZeroVec, Vec(2 * (Unit \div 100), Unit \div 100),
            Vec(3 * (Unit \div 100), Unit \div 100), Vec(3 * Unit, 4 * Unit)}

InitOrientation ==
  /\ owner = BaseOwner
  /\ target = BaseTarget
  /\ Constructed

NextOrientation ==
  \/ \E o \in {0, 2 * Unit} : Location_setOrientation("owner", o)
  \/ \E o \in Orientations : Location_setOrientation("target", o)
  \/ \E p \in Vectors : Location_setPosition(p)
  \/ \E v \in Vectors : Steerable_linearVelocity(v)
  \/ \E t \in {0, Unit \div 2} : setParameter("reach", "alignTolerance", t)
  \/ \E r \in {0, 2 * Unit} : setParameter("reach", "decelerationRadius", r)
  \/ \E b \in {"reach", "face", "look"} : Evaluate(b)

SpecOrientation == InitOrientation /\ [][NextOrientation]_vars

\* the angle congruent to a modulo 2 * PI that lies in [-PI, PI]
ShortestArc(a) ==
  CHOOSE r \in {a - k * PI2 : k \in -2..2} : -PI <= r /\ r <= PI

ThresholdOnly == {[kind |-> "owner", cap |-> "zeroLinearSpeedThreshold"]}

\* C10: Face hands back exactly zero when the squared length of target
\* position minus owner position is below zeroLinearSpeedThreshold, and
\* LookWhereYouAreGoing when the owner's squared linear speed is; in both cases
\* the call ends normally and ReachOrientation is not run on the degenerate
\* vector (no angular cap is read).
C10_DegenerateVectorYieldsZero ==
  LET toTarget == Vec(target.position.x - owner.position.x,
                      target.position.y - owner.position.y)
      v == owner.linearVelocity
  IN /\ (call.root = "face" /\ enabled["face"]
           /\ toTarget.x * toTarget.x + toTarget.y * toTarget.y < ZeroLinearSpeedThreshold)
          => (out = ZeroAccel /\ ~call.threw /\ call.reads = ThresholdOnly)
     /\ (call.root = "look" /\ enabled["look"]
           /\ v.x * v.x + v.y * v.y < ZeroLinearSpeedThreshold)
          => (out = ZeroAccel /\ ~call.threw /\ call.reads = ThresholdOnly)

\* Face with the target 0.02, 0.01 away from the owner
C10_Witness ==
  /\ call.root = "face"
  /\ enabled["face"]
  /\ target.position = Vec(2 * (Unit \div 100), Unit \div 100)
  /\ owner.position = ZeroVec
  /\ out = ZeroAccel
  /\ call.reads = ThresholdOnly

-----------------------------------------------------------------------------
(* RadiusProximity queried by the host *)

ProximityPositions == {Vec(3 * Unit, 0), Vec(5 * Unit, 0), Vec(10 * Unit, 0)}

InitProximity ==
  /\ owner = BaseOwner
  /\ target = BaseTarget
  /\ ConstructedBehaviors
  /\ \E r \in {0, Unit} :
       agents = [n \in AgentNames |->
                   IF n = "a1" THEN Agent(Vec(3 * Unit, 0), ZeroVec, 0)
                   ELSE Agent(Vec(10 * Unit, 0), ZeroVec, r)]
  /\ proximity = [radius |-> 5 * Unit, lastTime |-> 0, agents |-> <<"owner", "a1", "a2">>,
                  owner |-> "owner"]
  /\ tickId = 0
  /\ found = NoFind
  /\ ConstructedProximity2
  /\ ConstructedJump
  /\ ConstructedAvoid
  /\ ConstructedPath
  /\ ConstructedRaycast
  /\ ConstructedWander

NextProximity ==
  \/ nextTick
  \/ \E n \in AgentNames, p \in ProximityPositions : Steerable_position(n, p)
  \/ \E r \in {5 * Unit, 8 * Unit} : setRadius(r)
  \/ \E accept \in SUBSET AgentNames : Host_findNeighbors(accept)

SpecProximity == InitProximity /\ [][NextProximity]_vars

\* the candidates other than the owner that are strictly inside the range
InsideRange ==
  {n \in AgentNames :
     (owner.position.x - agents[n].position.x) * (owner.position.x - agents[n].position.x)
     + (owner.position.y - agents[n].position.y) * (owner.position.y - agents[n].position.y)
     < (proximity.radius + agents[n].boundingRadius)
       * (proximity.radius + agents[n].boundingRadius)}

\* owner at (0,0), agents at (3,0) and (10,0), radius 5, zero bounding radii
Scenario035 ==
  /\ owner.position = ZeroVec
  /\ agents["a1"].position = Vec(3 * Unit, 0)
  /\ agents["a2"].position = Vec(10 * Unit, 0)
  /\ proximity.radius = 5 * Unit
  /\ \A n \in AgentNames : agents[n].boundingRadius = 0

\* C11: a findNeighbors call that scans (the tick id differs from lastTime)
\* reports, once each, exactly the agents other than the owner whose squared
\* distance to the owner is below (radius + bounding radius) squared, and
\* returns the number of them the callback accepted; in the scenario of agents
\* at (0,0), (3,0), (10,0) and radius 5 the agent at (3,0) alone is reported.
C11_ScanReportsAgentsInsideRange ==
  [][proximity'.lastTime # proximity.lastTime =>
       /\ found'.kind = "scan"
       /\ {found'.reported[i] : i \in 1..Len(found'.reported)} = InsideRange
       /\ Len(found'.reported) = Cardinality(InsideRange)
       /\ found'.count = Cardinality(InsideRange \cap found'.callback.accept)
       /\ Scenario035 => found'.reported = <<"a1">>]_vars

C11_Witness ==
  /\ found.kind = "scan"
  /\ Scenario035
  /\ found.reported = <<"a1">>
  /\ found.callback.accept = AgentNames
  /\ found.count = 1

\* C12: a findNeighbors call made while the tick id equals lastTime computes no
\* distance, changes no tag, reports only agents that carry a tag, and, when
\* its callback accepts the agents the callback of the last scan accepted,
\* returns the count of that scan, wherever the agents are by then.
C12_SameTickReplaysTags ==
  [][(proximity.lastTime = tickId /\ found' # found) =>
       /\ found'.kind = "replay"
       /\ found'.distances = {}
       /\ agents' = agents
       /\ owner' = owner
       /\ \A i \in 1..Len(found'.reported) : agents[found'.reported[i]].tagged
       /\ (found.scan.count >= 0 /\ found'.callback = found.scan.callback)
            => found'.count = found.scan.count]_vars

\* a replay that reports, and counts, an agent that has left the range
C12_Witness ==
  /\ found.kind = "replay"
  /\ found.scan.count = 1
  /\ found.count = 1
  /\ found.reported = <<"a1">>
  /\ "a1" \notin InsideRange

\* C29: a findNeighbors call scans the candidates when it is the first call
\* after construction or when the tick id differs from the one the previous
\* call saw, whatever the ids are (a first tick id of 0 included), and replays
\* the tags only when the tick id equals that of the previous call.
C29_FirstCallAndNewTickScan ==
  [][found' # found =>
       (found'.kind = "scan" <=> (found.kind = "none" \/ proximity.lastTime # tickId))]_vars

-----------------------------------------------------------------------------
(* Jump evaluated by the host *)

\* from (1, 0): up and near (first root), up and farther (second root), up
\* and too far (no root within the speed), too high (no real root), down
JumpDescriptors ==
  {JumpDescriptor(Vec(Unit, 0), Vec(Unit + dx, dy)) :
     <<dx, dy>> \in {<<Unit \div 2, Unit>>, <<Unit, Unit>>, <<2 * Unit, Unit>>,
                     <<Unit \div 2, 2 * Unit>>, <<Unit \div 2, -2 * Unit>>}}

InitJump ==
  /\ owner = BaseOwner
  /\ target = BaseTarget
  /\ Constructed

NextJump ==
  \/ \E d \in JumpDescriptors : setJumpDescriptor(d)
  \/ setJumpField("maxVerticalVelocity", 5 * Unit)
  \/ \E name \in {"takeoffPositionTolerance", "takeoffVelocityTolerance"} :
       setJumpField(name, Unit \div 2)
  \/ \E e \in BOOLEAN : setEnabled("jump", e)
  \/ \E p \in {ZeroVec, Vec(Unit, 0)} : Steerable_position("owner", p)
  \/ \E v \in {ZeroVec, Vec(Unit + Unit \div 2, 0)} : Steerable_linearVelocity(v)
  \/ Evaluate("jump")

SpecJump == InitJump /\ [][NextJump]_vars

\* the positions in the record c of the calls of the callback method name
CallsTo(c, name) == {i \in 1..Len(c.calls) : c.calls[i].name = name}

\* C13: after a descriptor is assigned nothing is called and no run-up is
\* produced until the first enabled evaluation; that evaluation calls
\* reportAchievability, as the first callback call for the descriptor and
\* before any run-up acceleration; no later evaluation calls it again.
C13_AchievabilityReportedOnceFirst ==
  [][/\ CallsTo(callback', "reportAchievability") \subseteq {1}
     /\ jump'.target = "null" => (callback'.calls = <<>> /\ ~callback'.ranUp)
     /\ jump'.target # "null" =>
          (CallsTo(callback', "reportAchievability") = {1} /\ ~callback'.calls[1].ranUp)
     /\ (call'.root = "jump" /\ enabled["jump"] /\ ~call'.threw /\ jump.target = "null")
          => (jump'.target # "null" /\ Len(callback'.calls) >= 1)
     /\ (call'.root = "jump" /\ jump.target # "null")
          => CallsTo(callback', "reportAchievability")
               = CallsTo(callback, "reportAchievability")]_vars

\* reported once, then a run-up, then the takeoff
C13_Witness ==
  /\ Len(callback.calls) = 2
  /\ callback.calls[1].name = "reportAchievability"
  /\ callback.calls[2].name = "takeoff"
  /\ callback.calls[2].ranUp

\* every component within the tolerance
Within(a, b, tolerance) == Abs(a.x - b.x) <= tolerance /\ Abs(a.y - b.y) <= tolerance

\* the owner is at the takeoff position with the takeoff velocity, as far as
\* the tolerances of the Jump j ask
AtTakeoff(j) ==
  /\ Within(owner.position, j.jumpDescriptor.takeoffPosition, j.takeoffPositionTolerance)
  /\ Within(owner.linearVelocity, j.jumpTarget.linearVelocity, j.takeoffVelocityTolerance)

\* what MatchVelocity toward the takeoff velocity of the Jump j writes
RunUp(j) ==
  Accel(limit(Vec(QuoT((j.jumpTarget.linearVelocity.x - owner.linearVelocity.x) * Unit,
                       j.timeToTarget),
                  QuoT((j.jumpTarget.linearVelocity.y - owner.linearVelocity.y) * Unit,
                       j.timeToTarget)),
              owner.maxLinearAcceleration), 0)

\* the step is an enabled evaluation of the Jump
JumpEvaluated == call'.root = "jump" /\ enabled["jump"] /\ ~call'.threw

C15_AirborneTimeIsSentinelOrNonNegative ==
  jump.target # "null" => (jump.airborneTime = -Unit \/ jump.airborneTime >= 0)

\* C16: a jump whose computed time is the sentinel is reported with
\* reportAchievability(false) and nothing else is ever called for that
\* descriptor; every evaluation returns normally with exactly zero, also with
\* the owner at the takeoff position with the velocity of the jump target.
C16_UnachievableJumpStaysInert ==
  [][/\ (jump'.target # "null" /\ jump'.airborneTime < 0) =>
          /\ ~jump'.isJumpAchievable
          /\ Len(callback'.calls) = 1
          /\ callback'.calls[1].name = "reportAchievability"
          /\ callback'.calls[1].arg = FALSE
          /\ ~callback'.ranUp
     /\ (call'.root = "jump" /\ jump'.target # "null" /\ jump'.airborneTime < 0) =>
          (~call'.threw /\ out' = ZeroAccel)]_vars

\* an evaluation of an unachievable Jump made at the takeoff position with
\* the velocity of the jump target
C16_Witness ==
  /\ call.root = "jump"
  /\ enabled["jump"]
  /\ jump.target # "null"
  /\ jump.airborneTime = -Unit
  /\ jump.maxVerticalVelocity = 5 * Unit
  /\ owner.position = jump.jumpDescriptor.takeoffPosition
  /\ owner.linearVelocity = jump.jumpTarget.linearVelocity
  /\ callback.calls = <<[name |-> "reportAchievability", arg |-> FALSE, ranUp |-> FALSE]>>
  /\ out = ZeroAccel

-----------------------------------------------------------------------------
(* LinePath built and queried by the host *)

\* null, too short, and paths of two and three waypoints, one of them with
\* its first waypoint repeated
WaypointLists ==
  {NullWaypoints, Waypoints(<<>>), Waypoints(<<ZeroVec>>),
   Waypoints(<<ZeroVec, Vec(4 * Unit, 0)>>),
   Waypoints(<<ZeroVec, Vec(4 * Unit, 0), Vec(4 * Unit, 3 * Unit)>>),
   Waypoints(<<ZeroVec, ZeroVec, Vec(4 * Unit, 3 * Unit)>>)}

\* points on and off the paths
ProbePositions ==
  {ZeroVec, Vec(Unit, 0), Vec(4 * Unit, 0), Vec(4 * Unit, 2 * Unit),
   Vec(4 * Unit, 3 * Unit), Vec(2 * Unit, Unit + Unit \div 2), Vec(2 * Unit, 2 * Unit)}

InitPath ==
  /\ owner = BaseOwner
  /\ target = BaseTarget
  /\ Constructed

NextPath ==
  \/ \E w \in WaypointLists, isOpen \in BOOLEAN : LinePath_new(w, isOpen)
  \/ \E w \in WaypointLists : LinePath_createPath(w)
  \/ \E p \in ProbePositions : LinePath_calculateDistance(p)
  \/ \E d \in {path.probe.param.distance, -Unit, path.pathLength + Unit} :
       LinePath_calculateTargetPosition(d)

SpecPath == InitPath /\ [][NextPath]_vars

\* C17: a constructor or createPath call given null or fewer than two
\* waypoints throws, for open and closed paths alike, and builds nothing: the
\* constructor leaves no segments, createPath leaves the segments and the
\* length the path had.
C17_TooFewWaypointsThrow ==
  [][(path' # path /\ (path'.given.isNull \/ Len(path'.given.array) < 2)) =>
       /\ path'.threw
       /\ IF path'.made = "constructor"
          THEN path'.segments = <<>>
          ELSE path'.segments = path.segments /\ path'.pathLength = path.pathLength]_vars

\* createPath with a single waypoint on a closed path that had segments
C17_Witness ==
  /\ path.threw
  /\ path.made = "createPath"
  /\ ~path.isOpen
  /\ path.given = Waypoints(<<ZeroVec>>)
  /\ Len(path.segments) = 3

\* p lies on the segment
OnSegment(p, segment) ==
  /\ (segment.end.x - segment.begin.x) * (p.y - segment.begin.y)
       = (segment.end.y - segment.begin.y) * (p.x - segment.begin.x)
  /\ (p.x - segment.begin.x) * (p.x - segment.end.x) <= 0
  /\ (p.y - segment.begin.y) * (p.y - segment.end.y) <= 0

\* the tolerance of the round trip: three quanta of the fixed point
RoundTripSlack == 3

\* the host has fed the distance calculateDistance returned for a point on a
\* segment back to calculateTargetPosition
RoundTripped ==
  /\ path.probe.out # NullRef
  /\ path.probe.targetDistance = path.probe.param.distance
  /\ \E i \in 1..Len(path.segments) : OnSegment(path.probe.position, path.segments[i])

\* C18: for a point p on a segment, calculateTargetPosition at the distance
\* calculateDistance returned for p gives p, within the tolerance.
C18_RoundTripReturnsThePoint ==
  RoundTripped =>
    /\ ~path.probe.threw
    /\ path.probe.out # NaNVec
    /\ Abs(path.probe.out.x - path.probe.position.x) <= RoundTripSlack
    /\ Abs(path.probe.out.y - path.probe.position.y) <= RoundTripSlack

\* the path has two consecutive equal waypoints, or closes on its first one
HasZeroLengthSegment ==
  \E i \in 1..Len(path.segments) : path.segments[i].length = 0

\* C21: on a LinePath with a zero-length segment, calculateDistance and
\* calculateTargetPosition raise no error and leave defined values: a distance
\* within the path and a target position that is a point.
C21_ZeroLengthSegmentYieldsDefinedValues ==
  (HasZeroLengthSegment /\ path.probe.position # NullRef) =>
    /\ ~path.probe.threw
    /\ path.probe.param.distance >= 0
    /\ path.probe.param.distance <= path.pathLength
    /\ path.probe.out # NaNVec

\* the step is a calculateDistance call of the host
DistanceCalculated ==
  /\ path' # path
  /\ path'.probe.position # NullRef
  /\ path'.probe.out = NullRef

\* the clamped point-to-segment squared distance from p to the i-th segment
ClampedSquareDistance(i, p) ==
  calculatePointSegmentSquareDistance(path.segments[i].begin, path.segments[i].end,
                                      p).distance2

\* the point of the i-th segment nearest to p
Projected(i, p) ==
  calculatePointSegmentSquareDistance(path.segments[i].begin, path.segments[i].end, p).out

\* parameters a host may hand in: a fresh one and used ones
ParamsGiven ==
  {[segmentIndex |-> Undefined, distance |-> Undefined],
   [segmentIndex |-> 0, distance |-> 0],
   [segmentIndex |-> 1, distance |-> 5 * Unit]}

MappedInto(m, targetDistance) ==
  /\ 0 <= m /\ m <= path.pathLength
  /\ IF path.isOpen
     THEN m = IF targetDistance < 0 THEN 0
              ELSE IF targetDistance > path.pathLength THEN path.pathLength
              ELSE targetDistance
     ELSE \E k \in -2..2 : m = targetDistance - k * path.pathLength

\* the point back before the end of the segment
PointBeforeEnd(segment, back) ==
  IF segment.length = 0 THEN segment.end
  ELSE Vec(segment.end.x + QuoT((segment.begin.x - segment.end.x) * back, segment.length),
           segment.end.y + QuoT((segment.begin.y - segment.end.y) * back, segment.length))

\* C24: calculateTargetPosition maps targetDistance into [0, path length], by
\* clamping on an open path and by whole path lengths on a closed one, and
\* leaves in out the point at that arc length: on the first segment whose
\* cumulative length reaches it, that far before the segment's end.  The
\* cumulative lengths never decrease and end at the path length, over n - 1
\* segments for n waypoints when open and n when closed.
C24_TargetPositionAtMappedDistance ==
  /\ (path.segments # <<>> /\ ~path.threw) =>
       /\ Len(path.segments) = Len(path.given.array) - (IF path.isOpen THEN 1 ELSE 0)
       /\ path.segments[Len(path.segments)].cumulativeLength = path.pathLength
       /\ \A i \in 2..Len(path.segments) :
            path.segments[i - 1].cumulativeLength <= path.segments[i].cumulativeLength
  /\ path.probe.out # NullRef =>
       /\ ~path.probe.threw
       /\ path.probe.out # NaNVec
       /\ \E m \in 0..path.pathLength :
            /\ MappedInto(m, path.probe.targetDistance)
            /\ \E i \in 1..Len(path.segments) :
                 /\ path.segments[i].cumulativeLength >= m
                 /\ \A j \in 1..(i - 1) : path.segments[j].cumulativeLength < m
                 /\ path.probe.out
                      = PointBeforeEnd(path.segments[i],
                                       path.segments[i].cumulativeLength - m)

-----------------------------------------------------------------------------
(* CollisionAvoidance among two neighbours *)

AvoidPositions == {Vec(3 * Unit, 0), Vec(6 * Unit, 0), Vec(3 * Unit, 3 * Unit)}

AvoidVelocities == {ZeroVec, Vec(-Unit, 0), Vec(-2 * Unit, 0)}

InitAvoid ==
  /\ owner = BaseOwner
  /\ target = BaseTarget
  /\ ConstructedBehaviors
  /\ \E r \in {0, 2 * Unit} :
       agents = [n \in AgentNames |->
                   IF n = "a1" THEN Agent(Vec(3 * Unit, 0), Vec(-Unit, 0), 0)
                   ELSE Agent(Vec(6 * Unit, 0), Vec(-Unit, 0), r)]
  /\ \E order \in {<<"owner", "a1", "a2">>, <<"a2", "a1", "owner">>} :
       proximity = [radius |-> 20 * Unit, lastTime |-> 0, agents |-> order,
                    owner |-> "owner"]
  /\ tickId = 0
  /\ found = NoFind
  /\ ConstructedProximity2
  /\ ConstructedJump
  /\ ConstructedAvoid
  /\ ConstructedPath
  /\ ConstructedRaycast
  /\ ConstructedWander

NextAvoid ==
  \/ nextTick
  \/ \E p \in AvoidPositions : Steerable_position("a2", p)
  \/ \E n \in AgentNames, v \in AvoidVelocities : Agent_linearVelocity(n, v)
  \/ \E e \in BOOLEAN : setEnabled("avoid", e)
  \/ Evaluate("avoid")

SpecAvoid == InitAvoid /\ [][NextAvoid]_vars

RelativePosition(n) == sub(agents[n].position, owner.position)

RelativeVelocity(n) == sub(agents[n].linearVelocity, owner.linearVelocity)

\* time to closest approach, 0 for a neighbour with zero relative speed
TimeToCollision(n) ==
  IF sqrLen(RelativeVelocity(n)) = 0 THEN 0
  ELSE QuoT(-dot(RelativePosition(n), RelativeVelocity(n)) * Unit,
            sqrLen(RelativeVelocity(n)))

MinSeparation(n) ==
  len(RelativePosition(n)) - Mul(Sqrt(sqrLen(RelativeVelocity(n))), TimeToCollision(n))

\* nonzero relative speed, positive time to closest approach, and a minimum
\* separation within the sum of the two bounding radii
Qualifies(n) ==
  /\ sqrLen(RelativeVelocity(n)) # 0
  /\ TimeToCollision(n) > 0
  /\ MinSeparation(n) <= owner.boundingRadius + agents[n].boundingRadius

QualifyingOf(reported) == {n \in {reported[i] : i \in 1..Len(reported)} : Qualifies(n)}

HasMagnitude(v, m) == Sq(m - 3) <= sqrLen(v) /\ sqrLen(v) <= Sq(m + 3)

\* C20: an evaluation of the enabled CollisionAvoidance that returns selects,
\* among the neighbours reported to it that have nonzero relative speed, a
\* positive time to closest approach and a minimum separation within the sum
\* of the bounding radii, one whose time is smallest, in whatever order they
\* were reported; with no such neighbour the output is exactly zero, otherwise
\* its linear part has magnitude maxLinearAcceleration, points away from the
\* neighbour on a head-on course, and its angular part is 0.
C20_SteersAwayFromMostImminentNeighbor ==
  [][(call'.root = "avoid" /\ enabled["avoid"] /\ ~call'.threw) =>
       IF QualifyingOf(found'.reported) = {}
       THEN out' = ZeroAccel
       ELSE /\ avoid'.firstNeighbor \in QualifyingOf(found'.reported)
            /\ \A n \in QualifyingOf(found'.reported) :
                 TimeToCollision(avoid'.firstNeighbor) <= TimeToCollision(n)
            /\ avoid'.shortestTime = TimeToCollision(avoid'.firstNeighbor)
            /\ HasMagnitude(out'.linear, owner.maxLinearAcceleration)
            /\ MinSeparation(avoid'.firstNeighbor) <= 0
                 => dot(out'.linear, RelativePosition(avoid'.firstNeighbor)) < 0
            /\ out'.angular = 0]_vars

\* the later neighbour was reported first and the earlier one was selected
C20_Witness ==
  /\ call.root = "avoid"
  /\ ~call.threw
  /\ found.reported = <<"a2", "a1">>
  /\ QualifyingOf(found.reported) = {"a1", "a2"}
  /\ TimeToCollision("a1") < TimeToCollision("a2")
  /\ avoid.firstNeighbor = "a1"
  /\ out = Accel(Vec(-owner.maxLinearAcceleration, 0), 0)

\* a reported neighbour with zero relative speed is passed over
C20_WitnessNoneQualifies ==
  /\ call.root = "avoid"
  /\ Len(found.reported) = 2
  /\ QualifyingOf(found.reported) = {}
  /\ out = ZeroAccel

-----------------------------------------------------------------------------
(* What an evaluation leaves alone *)

FramePositions == {ZeroVec, Vec(4 * Unit, 2 * Unit)}

Evaluated == {"arrive", "follow", "avoid", "jump"}

InitFrame ==
  /\ owner = BaseOwner
  /\ target = BaseTarget
  /\ Constructed

NextFrame ==
  \/ nextTick
  \/ \E p \in FramePositions : Steerable_position("owner", p)
  \/ \E v \in {ZeroVec, Vec(Unit, 0)} : Steerable_linearVelocity(v)
  \/ \E pathOffset \in {0, 2 * Unit} : setPathOffset(pathOffset)
  \/ \E predictionTime \in {0, Unit} : setPredictionTime(predictionTime)
  \/ \E b \in Evaluated : Evaluate(b)

SpecFrame == InitFrame /\ [][NextFrame]_vars

C19_WitnessFollowPath ==
  /\ call.root = "follow"
  /\ owner.position = Vec(4 * Unit, 2 * Unit)
  /\ owner.linearVelocity = ZeroVec
  /\ follow.pathOffset = 2 * Unit
  /\ follow.pathParam.distance + follow.pathOffset > path.pathLength
  /\ follow.internalTargetPosition = Vec(4 * Unit, 3 * Unit)
  /\ out = Accel(Vec(0, owner.maxLinearAcceleration), 0)

-----------------------------------------------------------------------------
(* Two FollowPath behaviours of one owner on one LinePath *)

FollowPositions == {ZeroVec, Vec(2 * Unit, Unit), Vec(4 * Unit, 2 * Unit)}

\* the path (0,0), (4,0), (4,3), open or closed; the second follower aims 2
\* further along it
InitFollow ==
  /\ owner = BaseOwner
  /\ target = BaseTarget
  /\ ConstructedBehaviors
  /\ ConstructedProximity
  /\ ConstructedJump
  /\ ConstructedAvoid
  /\ ConstructedRaycast
  /\ ConstructedWander
  /\ \E isOpen \in BOOLEAN :
       path = LinePath(Waypoints(<<ZeroVec, Vec(4 * Unit, 0), Vec(4 * Unit, 3 * Unit)>>),
                       isOpen)
  /\ follow = [pathOffset |-> 0, predictionTime |-> 0, arriveEnabled |-> TRUE,
               pathParam |-> [segmentIndex |-> Undefined, distance |-> Undefined],
               internalTargetPosition |-> ZeroVec]
  /\ follow2 = [follow EXCEPT !.pathOffset = 2 * Unit]

NextFollow ==
  \/ \E p \in FollowPositions : Steerable_position("owner", p)
  \/ \E pathOffset \in {0, 2 * Unit, -Unit} : setPathOffset(pathOffset)
  \/ \E arriveEnabled \in BOOLEAN : setArriveEnabled(arriveEnabled)
  \/ \E r \in {0, 2 * Unit} : setParameter("follow", "decelerationRadius", r)
  \/ \E l \in {NullRef, LinearAccelerationLimiter(4 * Unit)} : setLimiter("follow", l)
  \/ \E b \in {"follow", "follow2"} : Evaluate(b)

SpecFollow == InitFollow /\ [][NextFollow]_vars

\* the step is an evaluation of the enabled FollowPath "follow"
FollowEvaluated == call'.root = "follow" /\ enabled["follow"]

\* the conditions under which the target is approached by Arrive, on the
\* target distance of the evaluation
Delegates ==
  /\ follow.arriveEnabled
  /\ path.isOpen
  /\ \/ /\ follow.pathOffset >= 0
        /\ follow'.pathParam.distance + follow.pathOffset
             > path.pathLength - params["follow"].decelerationRadius
     \/ /\ follow.pathOffset < 0
        /\ follow'.pathParam.distance + follow.pathOffset
             < params["follow"].decelerationRadius

\* what Arrive gives for the target position of the evaluation
ArriveOutcome == arrive("follow", out, follow'.internalTargetPosition)

MaxLinearSpeedRead ==
  \E r \in call'.reads : r.cap = "maxLinearSpeed"

\* the magnitude m, up to the quantum lost in the length d of the vector that
\* was normalised and the quanta lost in the two components
HasMagnitudeFrom(v, m, d) ==
  IF m = Infinity \/ d = 0 THEN HasMagnitude(v, m)
  ELSE Sq(m - 3) <= sqrLen(v) /\ sqrLen(v) <= Sq(m + 3 + (m \div d) + 1)

\* full acceleration towards the target position, no angular acceleration
SeeksTarget ==
  /\ ~call'.threw
  /\ ~MaxLinearSpeedRead
  /\ out'.angular = 0
  /\ HasMagnitudeFrom(out'.linear,
                      Get(getActualLimiter("follow"), "maxLinearAcceleration").value,
                      len(sub(follow'.internalTargetPosition, owner.position)))
  /\ dot(out'.linear, sub(follow'.internalTargetPosition, owner.position)) > 0

FollowerEvaluated(b) == call'.root = b /\ enabled[b]

-----------------------------------------------------------------------------
(* Two RadiusProximity instances of different owners over the same agents *)

NextShared ==
  \/ nextTick
  \/ \E accept \in SUBSET AgentNames : Host_findNeighbors(accept)
  \/ \E accept \in SUBSET AgentNames : Other_findNeighbors(accept)

SpecShared == InitProximity /\ [][NextShared]_vars

\* the agents the scan recorded in f reported and its callback accepted
AcceptedBy(f) == {f.reported[i] : i \in 1..Len(f.reported)} \cap f.callback.accept

\* C30: with several proximities of different owners over the same agents, a
\* same-tick replay of one proximity reports exactly the agents its own scan
\* accepted in that tick, whatever another proximity has scanned in between.
C30_ReplayReportsOwnScan ==
  [][(found.kind = "scan" /\ found'.kind = "replay") =>
       /\ {found'.reported[i] : i \in 1..Len(found'.reported)} = AcceptedBy(found)
       /\ found'.count = Cardinality(AcceptedBy(found) \cap found'.callback.accept)]_vars


-----------------------------------------------------------------------------
(* RaycastObstacleAvoidance evaluated by the host *)

\* what a ray may hit: walls facing the origin at (3, 0) and (0, 3), equally
\* far from an owner at the origin
RayCollisions ==
  {Collision(Vec(3 * Unit, 0), Vec(-Unit, 0)), Collision(Vec(0, 3 * Unit), Vec(0, -Unit))}

InitRaycast ==
  /\ owner = BaseOwner
  /\ target = BaseTarget
  /\ Constructed

NextRaycast ==
  \/ \E p \in {ZeroVec, Vec(2 * Unit, 0)} : Steerable_position("owner", p)
  \/ \E ray \in RayIds, collision \in RayCollisions \cup {NullRef} :
       World_collision(ray, collision)
  \/ \E rays \in {<<1>>, <<1, 2, 3>>} : setRayConfiguration(rays)
  \/ \E l \in {NullRef, LinearAccelerationLimiter(2 * Unit), [kind |-> "NullLimiter"]} :
       setLimiter("raycast", l)
  \/ Evaluate("raycast")

SpecRaycast == InitRaycast /\ [][NextRaycast]_vars

\* the positions in the configuration of the rays that collide
Hits == {i \in 1..Len(raycast.rays) : collisions[raycast.rays[i]] # NullRef}

HitDistance2(i) == dst2(owner.position, collisions[raycast.rays[i]].point)

\* the first of the colliding rays whose collision point is nearest to the owner
NearestHit ==
  CHOOSE i \in Hits : \A j \in Hits :
    HitDistance2(i) < HitDistance2(j) \/ (HitDistance2(i) = HitDistance2(j) /\ i <= j)

\* full acceleration towards the point that lies off the collision point by
\* the owner's bounding radius plus distanceFromBoundary along the normal
SteerFrom(collision) ==
  LET toTarget == sub(scaleAndAdd(collision.point, collision.normal,
                                  owner.boundingRadius + raycast.distanceFromBoundary),
                      owner.position)
      maxLinearAcceleration == Get(getActualLimiter("raycast"), "maxLinearAcceleration").value
  IN Accel(IF len(toTarget) = 0 THEN ZeroVec
           ELSE scaleRatio(toTarget, maxLinearAcceleration, len(toTarget)), 0)

\* C25: an evaluation of the enabled RaycastObstacleAvoidance that returns has
\* cast every ray of the configuration, in order; when no ray collided the
\* output is exactly zero, otherwise it steers from the collision of this
\* evaluation whose point is nearest to the owner, the first one on ties,
\* whatever an earlier evaluation recorded.
C25_SteersFromNearestCollisionOfThisEvaluation ==
  [][(call'.root = "raycast" /\ enabled["raycast"] /\ ~call'.threw) =>
       /\ raycast'.cast = raycast.rays
       /\ IF Hits = {} THEN out' = ZeroAccel
          ELSE /\ out' = SteerFrom(collisions[raycast.rays[NearestHit]])
               /\ raycast'.minOutputCollision = collisions[raycast.rays[NearestHit]]]_vars

\* two rays collide at the same distance and the first one is steered from
C25_Witness ==
  /\ call.root = "raycast"
  /\ enabled["raycast"]
  /\ ~call.threw
  /\ raycast.cast = <<1, 2, 3>>
  /\ Cardinality(Hits) >= 2
  /\ \E j \in Hits : j # NearestHit /\ HitDistance2(j) = HitDistance2(NearestHit)
  /\ out = SteerFrom(collisions[raycast.rays[NearestHit]])
  /\ out # ZeroAccel

\* no ray collides while the collision of an earlier evaluation is still held
C25_WitnessNoCollision ==
  /\ call.root = "raycast"
  /\ enabled["raycast"]
  /\ Hits = {}
  /\ raycast.cast = raycast.rays
  /\ raycast.minOutputCollision \in RayCollisions
  /\ out = ZeroAccel


-----------------------------------------------------------------------------
(* Wander evaluated by the host *)

\* the wander orientation is evaluated up to this many radians from 0
MaxTurn == 3

InitWander ==
  /\ owner = BaseOwner
  /\ target = BaseTarget
  /\ Constructed

NextWander ==
  \/ \E dt \in {0, Unit} : Host_deltaTime(dt)
  \/ \E first, second \in {0, Unit - 1} : Math_random(first, second)
  \/ \E wanderRate \in {Unit, 2 * Unit} : setWanderField("wanderRate", wanderRate)
  \/ setWanderField("wanderOrientation", 0)
  \/ setWanderField("wanderOffset", Unit)
  \/ setWanderField("wanderRadius", Unit)
  \/ \E faceEnabled \in BOOLEAN : setWanderField("faceEnabled", faceEnabled)
  \/ \E e \in BOOLEAN : setEnabled("wander", e)
  \/ /\ IsNumber(wander.wanderOrientation) => Abs(wander.wanderOrientation) <= MaxTurn * Unit
     /\ Evaluate("wander")

SpecWander == InitWander /\ [][NextWander]_vars

\* the step is an evaluation of the enabled Wander
WanderEvaluated == call'.root = "wander" /\ enabled["wander"]

\* the wander orientation moved by a number, of absolute value below
\* wanderRate times the delta time of the evaluation
SteppedWithinRate ==
  /\ IsNumber(wander.wanderOrientation)
  /\ IsNumber(wander'.wanderOrientation)
  /\ IsNumber(wander.wanderRate)
  /\ Abs(wander'.wanderOrientation - wander.wanderOrientation)
       < Mul(wander.wanderRate, deltaTime)

\* C26: the wander orientation keeps its value between evaluations: apart from
\* the host's setWanderOrientation it changes only in an evaluation of the
\* enabled Wander, by a step of absolute value below wanderRate times the
\* delta time the accessor returns at that evaluation, and not at all when
\* that delta time is 0.
C26_OrientationStepsWithinRate ==
  [][/\ wander'.wanderOrientation # wander.wanderOrientation =>
          \/ call'.root = "none"
          \/ WanderEvaluated /\ SteppedWithinRate
     /\ (WanderEvaluated /\ deltaTime = 0) =>
          wander'.wanderOrientation = wander.wanderOrientation]_vars


-----------------------------------------------------------------------------
(* Every behaviour evaluated into a buffer that earlier evaluations filled *)

\* the host has set up the PrioritySteering and the BlendedSteering, given
\* the Wander its circle and rate, placed a wall where the first ray hits and
\* two neighbours heading for the owner, and counted one frame
InitBuffer ==
  /\ \E p \in {ZeroVec, Vec(2 * Unit, Unit)} : owner = [BaseOwner EXCEPT !.position = p]
  /\ target = BaseTarget
  /\ enabled = [b \in Behaviors |-> TRUE]
  /\ limiter = [b \in Behaviors |-> NullRef]
  /\ behaviors = <<"nudge", "push", "wander">>
  /\ epsilon = 10 * Unit
  /\ selectedBehaviorIndex = Undefined
  /\ list = <<[behavior |-> "arrive", weight |-> Unit],
              [behavior |-> "spin", weight |-> Unit \div 2]>>
  /\ steering = ZeroAccel
  /\ params = [b \in {"arrive", "reach", "face", "look", "follow", "follow2", "wander"} |->
                 IF b \in {"arrive", "follow", "follow2"} THEN DefaultArrive
                 ELSE DefaultReach]
  /\ out = ZeroAccel
  /\ returned = -1
  /\ call = NoCall
  /\ agents = [n \in AgentNames |->
                 Agent(IF n = "a1" THEN Vec(3 * Unit, 0) ELSE Vec(6 * Unit, 0),
                       Vec(-Unit, 0), 0)]
  /\ proximity = [radius |-> 20 * Unit, lastTime |-> 0, agents |-> <<"owner", "a1", "a2">>,
                  owner |-> "owner"]
  /\ tickId = 1
  /\ found = NoFind
  /\ ConstructedProximity2
  /\ ConstructedJump
  /\ ConstructedAvoid
  /\ ConstructedPath
  /\ raycast = [rays |-> <<1, 2, 3>>, distanceFromBoundary |-> Unit,
                outputCollision |-> Collision(ZeroVec, ZeroVec),
                minOutputCollision |-> Collision(ZeroVec, ZeroVec), cast |-> <<>>]
  /\ collisions = [ray \in RayIds |->
                     IF ray = 1 THEN Collision(Vec(3 * Unit, 0), Vec(-Unit, 0)) ELSE NullRef]
  /\ \E faceEnabled \in BOOLEAN :
       wander = [wanderOffset |-> Unit, wanderRadius |-> Unit, wanderRate |-> 2 * Unit,
                 wanderOrientation |-> 0, faceEnabled |-> faceEnabled,
                 internalTargetPosition |-> ZeroVec, wanderCenter |-> ZeroVec]
  /\ deltaTime = Unit
  /\ random = <<Unit - 1, 0>>

NextBuffer ==
  \E b \in Behaviors \ {"follow2"} :
    /\ Abs(wander.wanderOrientation) <= MaxTurn * Unit
    /\ Evaluate(b)

SpecBuffer == InitBuffer /\ [][NextBuffer]_vars

\* what a caller's buffer may hold when it is passed in
Buffers == {ZeroAccel, Accel(Vec(7 * Unit, -3 * Unit), 5 * Unit)}

\* the evaluation of b from the current state with the buffer holding content
EvaluatedWith(b, content) == calculateSteering(b, "host", "out", [Frame EXCEPT !.out = content])

\* C28: the output of an evaluation that returns is the one the same
\* evaluation, from the same state, produces with any other content in the
\* buffer passed in, and the evaluation returns with the one exactly when it
\* returns with the other.
C28_OutputIndependentOfBufferContent ==
  [][call'.root \in Behaviors =>
       \A content \in Buffers :
         \E other \in {EvaluatedWith(call'.root, content)} :
            /\ other.threw = call'.threw
            /\ ~call'.threw => other.out = out']_vars

\* the PrioritySteering evaluated: each child after the first wrote into the
\* buffer that held the different acceleration of the child before it
C28_Witness ==
  /\ call.root = "priority"
  /\ ~call.threw
  /\ Len(ChildrenOf(call.trace, "priority")) = 3
  /\ \A i \in 1..3 : ChildrenOf(call.trace, "priority")[i].steering # ZeroAccel
  /\ \A i \in 1..2 : ChildrenOf(call.trace, "priority")[i + 1].steering
                         # ChildrenOf(call.trace, "priority")[i].steering
  /\ out = ChildrenOf(call.trace, "priority")[3].steering

\* the Wander evaluated by the host, seeking its target
C28_WitnessLeaf ==
  /\ call.root = "wander"
  /\ ~call.threw
  /\ IsNumber(wander.wanderOrientation)
  /\ out.linear # NaNVec
  /\ out.angular = 0
  /\ out.linear # ZeroVec

====
